---- MODULE Spec2Model ----
(***************************************************************************)
(* supportFlow.AI: the conversation memory facade                          *)
(* (src/src/memory/production_memory.py), its cache layer                  *)
(* (src/src/memory/cache.py) and the transactional session                 *)
(* (src/src/database/connection.py).                                       *)
(*                                                                         *)
(* Time is counted in hours and passes in steps of TickStep hours.  One     *)
(* facade or cache call is one step.                                       *)
(***************************************************************************)
EXTENDS Integers, Sequences, FiniteSets, TLC

VARIABLES
    now,            \* datetime.now(), in hours
    faulty,         \* the cache backend may fail after startup (fixed by Init)
    cache,          \* ConversationCache: use_redis, redis, memory_cache, memory_expiry
    conversations,  \* committed rows of support.conversations, by conversation_id
    messages,       \* committed rows of support.messages, in insertion order
    kb_usage,       \* committed rows of support.knowledge_base_usage
    next_id,        \* number of conversation ids (uuid4) handed out so far
    calls,          \* number of facade and cache calls made so far
    failures,       \* number of transactions rolled back so far
    ret,            \* the last call: its name, arguments and outcome
    last_start,     \* history: per customer, the id the last successful start_or_get returned
    transitioned,   \* history: ids whose status was updated and whose context was not read since
    written,        \* history: per conversation id, the last snapshot set_conversation was given
    twin,           \* the store of a second facade, given the same calls over a disabled cache
    inflight,       \* per worker, the transaction it has open (concurrent callers)
    rate_limiter,   \* RateLimiter: time.time() in seconds, requests per client id
    task            \* the send_escalation_email task in the Celery queue

vars == <<now, faulty, cache, conversations, messages, kb_usage, next_id,
          calls, failures, ret, last_start, transitioned, written, twin, inflight,
          rate_limiter, task>>

(***************************************************************************)
(* Bounds of the model and constants of the program                        *)
(***************************************************************************)
MaxTime == 6
TickStep == 3
MaxConv == 2
MaxFailures == 1
MaxCalls == 4

ConversationTtl == 4
WindowHours == 4
WindowCap == 50

ConvIds == 1..MaxConv
Workers == {"w1", "w2"}
Idle == [op |-> "idle"]
Customers == {"c1", "c2"}
Contents == {"m1"}
Agents == {"agent_7"}

PyNone == "None"
Contexts == {"{'plan': 'Pro'}", "{}"}
\* customer_context as the caller passes it: a dict, or None
ContextInputs == {"{'plan': 'Pro'}", PyNone}

\* Python's None / Optional: no value is <<>>, a value v is <<v>>
None == <<>>
Some(v) == <<v>>

(***************************************************************************)
(* json.dumps(..., default=str) and json.loads                             *)
(*                                                                         *)
(* A value json cannot encode (here: a datetime object) is replaced by     *)
(* str(value); every other value is encoded and decoded to itself.  The    *)
(* fields that may hold arbitrary objects are the free-form ones.          *)
(***************************************************************************)
DatetimeCtx == "{'since': datetime(2025, 1, 1, 0, 0)}"
PyObjects == {DatetimeCtx}
FreeFormFields == {"customer_context"}

PyStr(o) == IF o = DatetimeCtx THEN "{'since': '2025-01-01 00:00:00'}" ELSE o

JsonDefault(v) == IF v \in PyObjects THEN PyStr(v) ELSE v

JsonDumps(d) ==
    [json |-> [k \in DOMAIN d |->
                 IF k \in FreeFormFields THEN JsonDefault(d[k]) ELSE d[k]]]

JsonLoads(s) == s.json

(***************************************************************************)
(* The Redis server, as the cache layer uses it: a key is gone once its    *)
(* expiry time has passed; NoExpiry marks a key without a time to live.    *)
(***************************************************************************)
NoExpiry == -1

RedisHas(db, key) ==
    /\ key \in DOMAIN db
    /\ (db[key].exp = NoExpiry \/ ~(now > db[key].exp))

Put(f, key, val) == [k \in DOMAIN f \cup {key} |-> IF k = key THEN val ELSE f[k]]

Drop(f, key) == [k \in DOMAIN f \ {key} |-> f[k]]

Take(s, n) == SubSeq(s, 1, IF n < Len(s) THEN n ELSE Len(s))

ConvKey(id) == <<"conv", id>>
MsgKey(id) == <<"messages", id>>

(***************************************************************************)
(* ConversationCache (src/src/memory/cache.py).  c is the cache object;    *)
(* in Redis mode `ok` says whether the backend answers the command (a      *)
(* redis.RedisError is raised otherwise), `n` how many commands of a       *)
(* multi-command method are answered before the error.                     *)
(***************************************************************************)
NewCache(redisMode) ==
    [use_redis |-> redisMode,
     redis |-> << >>,
     memory_cache |-> << >>,
     memory_expiry |-> << >>]

\* an in-process entry that never expires once written
is_expired_Never(c, key) == key \notin DOMAIN c.memory_expiry

\* an in-process entry that is kept for twice its time to live
is_expired_Lenient(c, key) ==
    IF key \notin DOMAIN c.memory_expiry
    THEN TRUE
    ELSE now > c.memory_expiry[key] + ConversationTtl

is_expired(c, key) ==
    IF key \notin DOMAIN c.memory_expiry
    THEN TRUE
    ELSE now > c.memory_expiry[key]

get_conversation(c, id, ok) ==
    IF c.use_redis
    THEN IF ok /\ RedisHas(c.redis, ConvKey(id))
         THEN Some(JsonLoads(c.redis[ConvKey(id)].val))
         ELSE None
    ELSE IF ConvKey(id) \in DOMAIN c.memory_cache /\ ~is_expired(c, ConvKey(id))
         THEN Some(c.memory_cache[ConvKey(id)])
         ELSE None

set_conversation(c, id, data, ok) ==
    IF c.use_redis
    THEN IF ok
         THEN [c EXCEPT !.redis =
                 Put(@, ConvKey(id),
                     [val |-> JsonDumps(data), exp |-> now + ConversationTtl])]
         ELSE c
    ELSE [c EXCEPT !.memory_cache = Put(@, ConvKey(id), data),
                   !.memory_expiry = Put(@, ConvKey(id), now + ConversationTtl)]

\* Redis LRANGE key start stop: both ends inclusive, zero-based, a negative
\* index counts from the end of the list
LRange(list, start, stop) ==
    LET n == Len(list)
        lo == IF start < 0 THEN (IF n + start < 0 THEN 0 ELSE n + start) ELSE start
        hi == IF stop < 0 THEN n + stop ELSE (IF stop > n - 1 THEN n - 1 ELSE stop)
    IN  IF lo > hi THEN << >> ELSE SubSeq(list, lo + 1, hi + 1)

\* Python list[:limit]
PySlice(list, limit) ==
    IF limit < 0
    THEN Take(list, IF Len(list) + limit < 0 THEN 0 ELSE Len(list) + limit)
    ELSE Take(list, limit)

RedisList(db, key) == IF RedisHas(db, key) THEN db[key].val ELSE << >>

get_recent_messages(c, id, limit, ok) ==
    IF c.use_redis
    THEN IF ok
         THEN LET found == LRange(RedisList(c.redis, MsgKey(id)), 0, limit - 1)
              IN  Some([i \in 1..Len(found) |-> JsonLoads(found[i])])
         ELSE None
    ELSE IF MsgKey(id) \in DOMAIN c.memory_cache /\ ~is_expired(c, MsgKey(id))
         THEN Some(PySlice(c.memory_cache[MsgKey(id)], limit))
         ELSE None

\* LPUSH, LTRIM 0 49, EXPIRE: the first n of them are answered
RedisAddMessage(db, key, message, n) ==
    LET oldExp == IF RedisHas(db, key) THEN db[key].exp ELSE NoExpiry
        pushed == <<JsonDumps(message)>> \o RedisList(db, key)
        trimmed == Take(pushed, WindowCap)
    IN  CASE n = 0 -> db
          [] n = 1 -> Put(db, key, [val |-> pushed, exp |-> oldExp])
          [] n = 2 -> Put(db, key, [val |-> trimmed, exp |-> oldExp])
          [] OTHER -> Put(db, key, [val |-> trimmed, exp |-> now + ConversationTtl])

add_message(c, id, message, n) ==
    IF c.use_redis
    THEN [c EXCEPT !.redis = RedisAddMessage(@, MsgKey(id), message, n)]
    ELSE LET old == IF MsgKey(id) \notin DOMAIN c.memory_cache
                    THEN << >>
                    ELSE c.memory_cache[MsgKey(id)]
         IN  [c EXCEPT !.memory_cache =
                          Put(@, MsgKey(id), Take(<<message>> \o old, WindowCap)),
                       !.memory_expiry =
                          Put(@, MsgKey(id), now + ConversationTtl)]

\* del memory_cache[key], and memory_expiry[key] only when the cache held the key
MemoryDelete(c, key) ==
    IF key \in DOMAIN c.memory_cache
    THEN [c EXCEPT !.memory_cache = Drop(@, key),
                   !.memory_expiry = Drop(@, key)]
    ELSE c

\* an invalidation that empties the whole cache, as clear_cache does
invalidate_conversation_All(c, id, n) ==
    [c EXCEPT !.redis = << >>, !.memory_cache = << >>, !.memory_expiry = << >>]

\* DEL conv:{id}, DEL messages:{id}: the first n of them are answered
invalidate_conversation(c, id, n) ==
    IF c.use_redis
    THEN [c EXCEPT !.redis =
            CASE n = 0 -> @
              [] n = 1 -> Drop(@, ConvKey(id))
              [] OTHER -> Drop(Drop(@, ConvKey(id)), MsgKey(id))]
    ELSE MemoryDelete(MemoryDelete(c, ConvKey(id)), MsgKey(id))

\* classification_ttl = timedelta(minutes=30), in the clock's whole hours: an
\* entry is readable in the hour it was written and gone at the next Tick
ClassificationTtl == 1

ClassificationKey(message_hash) == <<"classification", message_hash>>

cache_classification(c, message_hash, classification, ok) ==
    IF c.use_redis
    THEN IF ok
         THEN [c EXCEPT !.redis =
                 Put(@, ClassificationKey(message_hash),
                     [val |-> JsonDumps(classification),
                      exp |-> now + ClassificationTtl])]
         ELSE c
    ELSE [c EXCEPT !.memory_cache =
                      Put(@, ClassificationKey(message_hash), classification),
                   !.memory_expiry =
                      Put(@, ClassificationKey(message_hash), now + ClassificationTtl)]

get_cached_classification(c, message_hash, ok) ==
    IF c.use_redis
    THEN IF ok /\ RedisHas(c.redis, ClassificationKey(message_hash))
         THEN Some(JsonLoads(c.redis[ClassificationKey(message_hash)].val))
         ELSE None
    ELSE IF ClassificationKey(message_hash) \in DOMAIN c.memory_cache
            /\ ~is_expired(c, ClassificationKey(message_hash))
         THEN Some(c.memory_cache[ClassificationKey(message_hash)])
         ELSE None

\* ping: TRUE, or "raised" when the unguarded self.redis.ping() fails
ping(c, ok) ==
    IF c.use_redis
    THEN IF ok THEN "True" ELSE "raised"
    ELSE "True"

\* what the Redis server does on its own: expired keys disappear
RedisPurge(db, t) ==
    [k \in {x \in DOMAIN db : db[x].exp = NoExpiry \/ ~(t > db[x].exp)} |-> db[k]]

(***************************************************************************)
(* The Durable Store: DatabaseManager.get_session and the rows of          *)
(* src/src/models/database_models.py.  A transaction works on a copy tx    *)
(* of the committed tables db; leaving the with-block commits it, an       *)
(* exception rolls it back.                                                *)
(***************************************************************************)
DB == [conversations |-> conversations, messages |-> messages, kb_usage |-> kb_usage]

\* a session whose exit commits even when the block raised
get_session_NoRollback(db, tx, raised) == tx

get_session(db, tx, raised) == IF raised THEN db ELSE tx

\* a new row whose counter does not count the initial message
ConversationDB_CountZero(id, customer_id, customer_context) ==
    [conversation_id |-> id,
     customer_id |-> customer_id,
     status |-> "open",
     priority |-> PyNone,
     category |-> PyNone,
     message_count |-> 0,
     escalated |-> FALSE,
     human_agent_id |-> PyNone,
     customer_context |-> IF customer_context = PyNone THEN "{}" ELSE customer_context,
     classification_history |-> << >>,
     created_at |-> now,
     updated_at |-> now,
     resolved_at |-> None]

\* ConversationDB(customer_id, customer_context, status='open', message_count=1)
\* with the column defaults applied by the flush
ConversationDB(id, customer_id, customer_context) ==
    [conversation_id |-> id,
     customer_id |-> customer_id,
     status |-> "open",
     priority |-> PyNone,
     category |-> PyNone,
     message_count |-> 1,
     escalated |-> FALSE,
     human_agent_id |-> PyNone,
     customer_context |-> IF customer_context = PyNone THEN "{}" ELSE customer_context,
     classification_history |-> << >>,
     created_at |-> now,
     updated_at |-> now,
     resolved_at |-> None]

MessageDB(conversation_id, role, content) ==
    [conversation_id |-> conversation_id, role |-> role, content |-> content]

KnowledgeBaseUsageDB(conversation_id, article) ==
    [conversation_id |-> conversation_id, article_id |-> article]

\* the dict _add_message hands to cache.add_message
CachedMessage(role, content) ==
    [role |-> role, content |-> content]

\* an insert that keeps one row per conversation and role, rewriting the rest
InsertMessage_Upsert(tx, conversation_id, role, content) ==
    [tx EXCEPT !.messages =
        Append(SelectSeq(@, LAMBDA m : ~(m.conversation_id = conversation_id
                                         /\ m.role = role)),
               MessageDB(conversation_id, role, content))]

\* session.add(message); session.flush()
InsertMessage(tx, conversation_id, role, content) ==
    [tx EXCEPT !.messages = Append(@, MessageDB(conversation_id, role, content))]

\* _cache_conversation: the snapshot built from a ConversationDB object
Snapshot(row) ==
    [conversation_id |-> row.conversation_id,
     customer_id |-> row.customer_id,
     status |-> row.status,
     priority |-> row.priority,
     category |-> row.category,
     message_count |-> row.message_count,
     escalated |-> row.escalated,
     customer_context |-> row.customer_context,
     classification_history |-> row.classification_history]

\* get_conversation_context: the context built from the row read from the store
Context(row) ==
    [conversation_id |-> row.conversation_id,
     customer_id |-> row.customer_id,
     status |-> row.status,
     priority |-> row.priority,
     category |-> row.category,
     message_count |-> row.message_count,
     escalated |-> row.escalated,
     customer_context |-> row.customer_context,
     classification_history |-> row.classification_history,
     created_at |-> row.created_at,
     updated_at |-> row.updated_at,
     duration_minutes |-> (row.updated_at - row.created_at) * 60]

\* the filter with the time comparison turned around
Qualifies_OutsideWindow(row, customer_id) ==
    /\ row.customer_id = customer_id
    /\ row.status \in {"open", "in_progress"}
    /\ row.updated_at < now - WindowHours

\* the filter without the continuity window
Qualifies_NoWindow(row, customer_id) ==
    /\ row.customer_id = customer_id
    /\ row.status \in {"open", "in_progress"}

\* the filter without the status test
Qualifies_AnyStatus(row, customer_id) ==
    /\ row.customer_id = customer_id
    /\ row.updated_at > now - WindowHours

\* the filter of start_or_get_conversation's query
Qualifies(row, customer_id) ==
    /\ row.customer_id = customer_id
    /\ row.status \in {"open", "in_progress"}
    /\ row.updated_at > now - WindowHours

\* .order_by(desc(updated_at)).first(): the ids the query may return (rows
\* with equal updated_at come in an order the database chooses)
RecentConversation(convs, customer_id) ==
    LET q == {i \in DOMAIN convs : Qualifies(convs[i], customer_id)}
    IN  {i \in q : \A j \in q : convs[j].updated_at <= convs[i].updated_at}

\* one more call, and one more rollback when its transaction raised
Ended(raised) ==
    /\ calls < MaxCalls
    /\ calls' = calls + 1
    /\ raised => failures < MaxFailures
    /\ failures' = IF raised THEN failures + 1 ELSE failures

(***************************************************************************)
(* Inputs                                                                  *)
(***************************************************************************)
Classifications ==
    {[category |-> "technical", priority |-> "low", requires_human_escalation |-> FALSE]}

\* further classifications: one that asks for a human, one without the
\* requires_human_escalation key
MoreClassifications ==
    {[category |-> "billing", priority |-> "high", requires_human_escalation |-> TRUE],
     [category |-> "general", priority |-> "medium"]}

\* metadata: None, or a dict with a classification and the articles used
NoMetadata == [classification |-> None, articles_used |-> << >>]

Metadatas ==
    {NoMetadata}
    \cup {[classification |-> Some(cl), articles_used |-> <<"kb_001">>] :
             cl \in Classifications}

ClassifiedMetadatas ==
    {[classification |-> Some(cl), articles_used |-> << >>] :
        cl \in Classifications \cup MoreClassifications}

\* Python dict.get(key, default)
DictGet(d, key, default) == IF key \in DOMAIN d THEN d[key] ELSE default

Statuses == {"open", "in_progress", "resolved", "escalated"}

\* human_agent_id of update_conversation_status: an agent, or the default None
\* (the API and the agent escalate without naming one)
AgentInputs == Agents \cup {PyNone}

\* the argument is read only when the new status is escalated (line 233)
AgentInputsFor(status) == IF status = "escalated" THEN AgentInputs ELSE {PyNone}

\* what the cache backend may do during one call
Oks == IF faulty THEN BOOLEAN ELSE {TRUE}
Answered(k) == IF faulty THEN 0..k ELSE {k}

(***************************************************************************)
(* The same facade code over a disabled cache (every read a miss, every    *)
(* write discarded), given the same calls: twin holds its Durable Store    *)
(* and the id its last start_or_get_conversation returned.                 *)
(***************************************************************************)
TwinDB == [conversations |-> twin.conversations, messages |-> twin.messages,
           kb_usage |-> twin.kb_usage]

TwinAfter(after, value) ==
    [conversations |-> after.conversations, messages |-> after.messages,
     kb_usage |-> after.kb_usage, value |-> value]

(***************************************************************************)
(* ProductionConversationMemory.start_or_get_conversation                  *)
(***************************************************************************)
\* a create branch that also resolves the customer's earlier open conversations
StartTx_ClosePrevious(db, customer_id, initial_message, customer_context, found, new_id) ==
    IF found # 0
    THEN InsertMessage(db, found, "user", initial_message)
    ELSE InsertMessage(
             [db EXCEPT !.conversations =
                 Put([i \in DOMAIN @ |->
                         IF @[i].customer_id = customer_id /\ @[i].status = "open"
                         THEN [@[i] EXCEPT !.status = "resolved", !.updated_at = now]
                         ELSE @[i]],
                     new_id, ConversationDB(new_id, customer_id, customer_context))],
             new_id, "user", initial_message)

\* the body of the with-block: found is the id the query returned (0: none),
\* new_id the uuid4 of a new row
StartTx(db, customer_id, initial_message, customer_context, found, new_id) ==
    IF found # 0
    THEN InsertMessage(db, found, "user", initial_message)
    ELSE InsertMessage(
             [db EXCEPT !.conversations =
                 Put(@, new_id, ConversationDB(new_id, customer_id, customer_context))],
             new_id, "user", initial_message)

\* the cache writes of the body: cache.add_message in _add_message, then
\* _cache_conversation on the create branch
StartCache(c, customer_id, initial_message, customer_context, found, new_id, n, ok) ==
    IF found # 0
    THEN add_message(c, found, CachedMessage("user", initial_message), n)
    ELSE set_conversation(
             add_message(c, new_id, CachedMessage("user", initial_message), n),
             new_id,
             Snapshot(ConversationDB(new_id, customer_id, customer_context)),
             ok)

StartStep(customer_id, initial_message, customer_context, found, fail, n, ok) ==
    LET new_id == next_id + 1
        id == IF found # 0 THEN found ELSE new_id
        tx == StartTx(DB, customer_id, initial_message, customer_context, found, new_id)
        after == get_session(DB, tx, fail # "none")
    IN  /\ found = 0 => next_id < MaxConv
        /\ Ended(fail # "none")
        /\ conversations' = after.conversations
        /\ messages' = after.messages
        /\ kb_usage' = after.kb_usage
        /\ cache' = StartCache(cache, customer_id, initial_message,
                               customer_context, found, new_id, n, ok)
        /\ next_id' = IF found = 0 THEN new_id ELSE next_id
        /\ ret' = [op |-> "start_or_get_conversation",
                   customer_id |-> customer_id,
                   message |-> initial_message,
                   customer_context |-> customer_context,
                   outcome |-> IF fail = "none" THEN "ok" ELSE "raised",
                   value |-> IF fail = "none" THEN id ELSE 0]
        /\ last_start' = IF fail = "none"
                         THEN [last_start EXCEPT ![customer_id] = id]
                         ELSE last_start
        /\ UNCHANGED <<now, faulty, rate_limiter, task, transitioned, written>>

\* the query of the second facade returns the row the first one's returned
\* whenever that row is among its candidates
TwinStart(customer_id, initial_message, customer_context, found, fail) ==
    LET recent == RecentConversation(twin.conversations, customer_id)
        choices == IF recent = {} THEN {0}
                   ELSE IF found \in recent THEN {found} ELSE recent
    IN  \E found2 \in choices :
            twin' = TwinAfter(
                        get_session(TwinDB,
                                    StartTx(TwinDB, customer_id, initial_message,
                                            customer_context, found2, next_id + 1),
                                    fail # "none"),
                        IF fail # "none" THEN 0
                        ELSE IF found2 # 0 THEN found2 ELSE next_id + 1)

\* a resolver that continues a conversation only while its snapshot is cached
StartOrGetConversation_CachedOnly ==
    \E customer_id \in Customers, initial_message \in Contents,
       customer_context \in ContextInputs, fail \in {"none", "commit"},
       n \in Answered(3), ok \in Oks :
        LET recent == {i \in RecentConversation(conversations, customer_id) :
                         get_conversation(cache, i, ok) # None}
        IN  \E found \in (IF recent = {} THEN {0} ELSE recent) :
                /\ StartStep(customer_id, initial_message, customer_context,
                             found, fail, n, ok)
                /\ TwinStart(customer_id, initial_message, customer_context,
                             found, fail)
                /\ UNCHANGED inflight

StartOrGetConversation ==
    \E customer_id \in Customers, initial_message \in Contents,
       customer_context \in ContextInputs, fail \in {"none", "commit"},
       n \in Answered(3), ok \in Oks :
        LET recent == RecentConversation(conversations, customer_id)
        IN  \E found \in (IF recent = {} THEN {0} ELSE recent) :
                /\ StartStep(customer_id, initial_message, customer_context,
                             found, fail, n, ok)
                /\ TwinStart(customer_id, initial_message, customer_context,
                             found, fail)
                /\ UNCHANGED inflight

(***************************************************************************)
(* ProductionConversationMemory.add_interaction                            *)
(***************************************************************************)
\* an update under which a conversation once escalated stays escalated
InteractionRow_StickyEscalation(row, metadata) ==
    LET counted == [row EXCEPT !.message_count = @ + 2, !.updated_at = now]
    IN  IF metadata.classification = None
        THEN counted
        ELSE LET cl == metadata.classification[1]
             IN  [counted EXCEPT
                     !.classification_history =
                         Append(@, [classification |-> cl]),
                     !.category = DictGet(cl, "category", PyNone),
                     !.priority = DictGet(cl, "priority", PyNone),
                     !.escalated =
                         @ \/ DictGet(cl, "requires_human_escalation", FALSE)]

\* lines 104-122 on the object loaded in the session
InteractionRow(row, metadata) ==
    LET counted == [row EXCEPT !.message_count = @ + 2, !.updated_at = now]
    IN  IF metadata.classification = None
        THEN counted
        ELSE LET cl == metadata.classification[1]
             IN  [counted EXCEPT
                     !.classification_history =
                         Append(@, [classification |-> cl]),
                     !.category = DictGet(cl, "category", PyNone),
                     !.priority = DictGet(cl, "priority", PyNone),
                     !.escalated = DictGet(cl, "requires_human_escalation", FALSE)]

\* what the flush writes of it: classification_history is a plain JSON column,
\* so the UPDATE carries it only when the attribute was assigned (line 111, on
\* an empty history); an append to the loaded list is not tracked
FlushedRow(row, inSession) ==
    [inSession EXCEPT !.classification_history =
        IF row.classification_history = << >> THEN @ ELSE row.classification_history]

\* _track_kb_usage
TrackKbUsage(tx, conversation_id, articles) ==
    [tx EXCEPT !.kb_usage =
        @ \o [i \in 1..Len(articles) |->
                KnowledgeBaseUsageDB(conversation_id, articles[i])]]

\* the body of the with-block, on an existing conversation, as far as it got
\* when it raised: at the flush of the user message ("flush1"), at the flush
\* of the assistant message ("flush2"), at the commit, or not at all ("none")
InteractionTx(db, conversation_id, user_message, agent_response, metadata, fail) ==
    LET tx1 == InsertMessage(db, conversation_id, "user", user_message)
        tx2 == InsertMessage(tx1, conversation_id, "assistant", agent_response)
        row == db.conversations[conversation_id]
        tx3 == [tx2 EXCEPT !.conversations[conversation_id] =
                              FlushedRow(row, InteractionRow(row, metadata))]
    IN  CASE fail = "flush1" -> db
          [] fail = "flush2" -> tx1
          [] OTHER -> TrackKbUsage(tx3, conversation_id, metadata.articles_used)

\* the cache writes of the body up to the point where it raised
InteractionCache(c, conversation_id, user_message, agent_response, metadata, fail, n1, n2, ok) ==
    LET c1 == IF fail = "flush1"
              THEN c
              ELSE add_message(c, conversation_id,
                               CachedMessage("user", user_message), n1)
        c2 == IF fail \in {"flush1", "flush2"}
              THEN c1
              ELSE add_message(c1, conversation_id,
                               CachedMessage("assistant", agent_response), n2)
    IN  IF fail \in {"none", "commit"}
        THEN set_conversation(
                 c2, conversation_id,
                 Snapshot(InteractionRow(conversations[conversation_id], metadata)),
                 ok)
        ELSE c2

TwinInteraction(conversation_id, user_message, agent_response, metadata, failure) ==
    LET known == conversation_id \in DOMAIN twin.conversations
        fail == IF known THEN failure ELSE "flush1"
        tx == IF known
              THEN InteractionTx(TwinDB, conversation_id, user_message,
                                 agent_response, metadata, fail)
              ELSE TwinDB
    IN  twin' = TwinAfter(get_session(TwinDB, tx, fail # "none"), twin.value)

AddInteractionOf(metadatas) ==
    \E conversation_id \in ConvIds, user_message \in Contents,
       metadata \in metadatas,
       failure \in {"none", "flush1", "flush2", "commit"},
       n1 \in Answered(3), n2 \in Answered(3), ok \in Oks :
        LET \* a message of an unknown conversation violates the foreign key
            fail == IF conversation_id \in DOMAIN conversations
                    THEN failure ELSE "flush1"
            tx == IF conversation_id \in DOMAIN conversations
                  THEN InteractionTx(DB, conversation_id, user_message, "reply",
                                     metadata, fail)
                  ELSE DB
            after == get_session(DB, tx, fail # "none")
        IN  /\ Ended(fail # "none")
            /\ conversations' = after.conversations
            /\ messages' = after.messages
            /\ kb_usage' = after.kb_usage
            /\ cache' = InteractionCache(cache, conversation_id, user_message,
                                         "reply", metadata, fail, n1, n2, ok)
            /\ ret' = [op |-> "add_interaction",
                       conversation_id |-> conversation_id,
                       message |-> user_message,
                       classified |-> metadata.classification # None,
                       classification |-> metadata.classification,
                       articles |-> Len(metadata.articles_used),
                       outcome |-> IF fail = "none" THEN "ok" ELSE "raised",
                       raised_at |-> fail]
            /\ TwinInteraction(conversation_id, user_message, "reply", metadata,
                               failure)
            /\ UNCHANGED <<now, faulty, rate_limiter, task, next_id, last_start, transitioned, written, inflight>>

AddInteraction == AddInteractionOf(Metadatas)

\* add_interaction with a classification in its metadata
AddClassifiedInteraction == AddInteractionOf(ClassifiedMetadatas)

(***************************************************************************)
(* ProductionConversationMemory.update_conversation_status                 *)
(***************************************************************************)
\* a status update that stamps resolved_at whatever the new status is
StatusRow_AlwaysResolved(row, status, human_agent_id) ==
    [row EXCEPT !.status = status,
                !.updated_at = now,
                !.resolved_at = Some(now),
                !.escalated = IF status = "escalated" THEN TRUE ELSE @,
                !.human_agent_id = IF status = "escalated" THEN human_agent_id ELSE @]

StatusRow(row, status, human_agent_id) ==
    [row EXCEPT !.status = status,
                !.updated_at = now,
                !.resolved_at = IF status = "resolved" THEN Some(now) ELSE @,
                !.escalated = IF status = "escalated" THEN TRUE ELSE @,
                !.human_agent_id = IF status = "escalated" THEN human_agent_id ELSE @]

StatusTx(db, conversation_id, status, human_agent_id) ==
    IF conversation_id \in DOMAIN db.conversations
    THEN [db EXCEPT !.conversations[conversation_id] =
                       StatusRow(@, status, human_agent_id)]
    ELSE db

\* line 238: the invalidation, inside `if conversation:`
StatusCache(c, conversation_id, n) ==
    IF conversation_id \in DOMAIN conversations
    THEN invalidate_conversation(c, conversation_id, n)
    ELSE c

TwinStatus(conversation_id, status, human_agent_id, fail) ==
    twin' = TwinAfter(
                get_session(TwinDB,
                            StatusTx(TwinDB, conversation_id, status, human_agent_id),
                            fail # "none"),
                twin.value)

UpdateConversationStatus ==
    \E conversation_id \in ConvIds, status \in Statuses,
       fail \in {"none", "commit"}, n \in Answered(2) :
      \E human_agent_id \in AgentInputsFor(status) :
        LET tx == StatusTx(DB, conversation_id, status, human_agent_id)
            after == get_session(DB, tx, fail # "none")
        IN  /\ Ended(fail # "none")
            /\ conversations' = after.conversations
            /\ messages' = after.messages
            /\ kb_usage' = after.kb_usage
            /\ cache' = StatusCache(cache, conversation_id, n)
            /\ ret' = [op |-> "update_conversation_status",
                       conversation_id |-> conversation_id,
                       status |-> status,
                       human_agent_id |-> human_agent_id,
                       outcome |-> IF fail = "none" THEN "ok" ELSE "raised",
                       value |-> None]
            /\ transitioned' =
                  IF fail = "none" /\ conversation_id \in DOMAIN conversations
                  THEN transitioned \cup {conversation_id}
                  ELSE transitioned
            /\ TwinStatus(conversation_id, status, human_agent_id, fail)
            /\ UNCHANGED <<now, faulty, rate_limiter, task, next_id, last_start, written, inflight>>

(***************************************************************************)
(* ProductionConversationMemory.get_conversation_context                   *)
(***************************************************************************)
\* the value returned: the cached snapshot, else the context read from the store
ContextResult(c, convs, conversation_id, ok) ==
    LET cached_context == get_conversation(c, conversation_id, ok)
    IN  IF cached_context # None
        THEN cached_context
        ELSE IF conversation_id \in DOMAIN convs
             THEN Some(Context(convs[conversation_id]))
             ELSE None

\* line 206: the cache is filled on a miss that finds the row
ContextCache(c, convs, conversation_id, ok1, ok2) ==
    IF get_conversation(c, conversation_id, ok1) = None
       /\ conversation_id \in DOMAIN convs
    THEN set_conversation(c, conversation_id, Context(convs[conversation_id]), ok2)
    ELSE c

GetConversationContext ==
    \E conversation_id \in ConvIds, ok1 \in Oks, ok2 \in Oks,
       fail \in {"none", "commit"} :
        LET hit == get_conversation(cache, conversation_id, ok1) # None
            raised == ~hit /\ fail # "none"
        IN  /\ Ended(raised)
            /\ cache' = ContextCache(cache, conversations, conversation_id,
                                     ok1, ok2)
            /\ ret' = [op |-> "get_conversation_context",
                       conversation_id |-> conversation_id,
                       outcome |-> IF raised THEN "raised" ELSE "ok",
                       value |-> IF raised
                                 THEN None
                                 ELSE ContextResult(cache, conversations,
                                                    conversation_id, ok1)]
            /\ hit => fail = "none"
            /\ transitioned' = IF raised
                               THEN transitioned
                               ELSE transitioned \ {conversation_id}
            /\ UNCHANGED <<now, faulty, rate_limiter, task, twin, inflight, conversations, messages, kb_usage,
                           next_id, last_start, written>>

(***************************************************************************)
(* ProductionConversationMemory.get_conversation_history                   *)
(***************************************************************************)
DefaultHistoryLimit == 20

HistoryLimits == {1, DefaultHistoryLimit}

\* the dict built from a MessageDB row (lines 150-159)
HistoryMessage(row) == [role |-> row.role, content |-> row.content]

\* filter_by(conversation_id).order_by(created_at).limit(limit).all()
HistoryRows(msgs, conversation_id, limit) ==
    LET OfConversation(m) == m.conversation_id = conversation_id
        rows == SelectSeq(msgs, OfConversation)
    IN  [i \in 1..(IF limit < Len(rows) THEN limit ELSE Len(rows)) |->
            HistoryMessage(rows[i])]

\* `if cached_messages:` an absent or empty window is a miss
HistoryHit(c, conversation_id, limit, ok) ==
    LET cached_messages == get_recent_messages(c, conversation_id, limit, ok)
    IN  cached_messages # None /\ cached_messages[1] # << >>

\* lines 162-164: every message read from the store is pushed to the cache,
\* oldest first; ns[i] commands of the i-th add_message are answered
RECURSIVE Backfill(_, _, _, _)
Backfill(c, conversation_id, history, ns) ==
    IF history = << >>
    THEN c
    ELSE Backfill(add_message(c, conversation_id, Head(history), Head(ns)),
                  conversation_id, Tail(history), Tail(ns))

GetConversationHistory ==
    \E conversation_id \in ConvIds, limit \in HistoryLimits, ok \in Oks,
       fail \in {"none", "commit"} :
        LET hit == HistoryHit(cache, conversation_id, limit, ok)
            raised == ~hit /\ fail # "none"
            history == HistoryRows(messages, conversation_id, limit)
        IN  /\ Ended(raised)
            /\ hit => fail = "none"
            /\ \E ns \in [1..Len(history) -> Answered(3)] :
                  cache' = IF hit
                           THEN cache
                           ELSE Backfill(cache, conversation_id, history, ns)
            /\ ret' = [op |-> "get_conversation_history",
                       conversation_id |-> conversation_id,
                       limit |-> limit,
                       outcome |-> IF raised THEN "raised" ELSE "ok",
                       value |-> IF raised THEN << >>
                                 ELSE IF hit
                                 THEN get_recent_messages(cache, conversation_id,
                                                          limit, ok)[1]
                                 ELSE history]
            /\ UNCHANGED <<now, faulty, rate_limiter, task, twin, inflight, conversations, messages, kb_usage,
                           next_id, last_start, transitioned, written>>

(***************************************************************************)
(* ProductionConversationMemory.get_customer_conversation_history          *)
(***************************************************************************)
\* the summary of one conversation (lines 253-261)
Summary(row) ==
    [conversation_id |-> row.conversation_id,
     status |-> row.status,
     message_count |-> row.message_count]

GetCustomerConversationHistory ==
    \E customer_id \in Customers, fail \in {"none", "commit"} :
        /\ Ended(fail # "none")
        /\ ret' = [op |-> "get_customer_conversation_history",
                   customer_id |-> customer_id,
                   outcome |-> IF fail = "none" THEN "ok" ELSE "raised",
                   value |-> IF fail = "none"
                             THEN {Summary(conversations[id]) :
                                     id \in {i \in DOMAIN conversations :
                                               conversations[i].customer_id = customer_id}}
                             ELSE {}]
        /\ UNCHANGED <<now, faulty, rate_limiter, task, twin, inflight, cache, conversations, messages, kb_usage,
                       next_id, last_start, transitioned, written>>

(***************************************************************************)
(* Time                                                                    *)
(***************************************************************************)
Tick ==
    /\ now + TickStep <= MaxTime
    /\ now' = now + TickStep
    /\ cache' = [cache EXCEPT !.redis = RedisPurge(@, now + TickStep)]
    /\ ret' = [op |-> "tick"]
    /\ UNCHANGED <<faulty, rate_limiter, task, twin, inflight, conversations, messages, kb_usage, next_id,
                   calls, failures, last_start, transitioned, written>>

(***************************************************************************)
(* The facade over a cache backend that answers                            *)
(***************************************************************************)
InitStore ==
    /\ now = 0
    /\ conversations = << >>
    /\ messages = << >>
    /\ kb_usage = << >>
    /\ next_id = 0
    /\ calls = 0
    /\ failures = 0
    /\ ret = [op |-> "init"]
    /\ last_start = [c \in Customers |-> 0]
    /\ transitioned = {}
    /\ written = [i \in ConvIds |-> None]
    /\ rate_limiter = [clock |-> 0, requests |-> << >>,
                       accepted |-> [c \in Customers |-> << >>]]
    /\ task = [state |-> "NONE", conversation_id |-> 0, retries |-> 0,
               clock |-> 0, eta |-> 0, runs |-> << >>]
    /\ twin = [conversations |-> << >>, messages |-> << >>, kb_usage |-> << >>,
               value |-> 0]
    /\ inflight = [w \in Workers |-> Idle]

Init ==
    /\ InitStore
    /\ faulty = FALSE
    /\ \E redisMode \in BOOLEAN : cache = NewCache(redisMode)

Next ==
    \/ StartOrGetConversation
    \/ AddInteraction
    \/ UpdateConversationStatus
    \/ GetConversationContext
    \/ Tick

Spec == Init /\ [][Next]_vars

\* the operations that write and read a conversation's messages
HistoryNext ==
    \/ StartOrGetConversation
    \/ AddInteraction
    \/ GetConversationHistory
    \/ Tick

HistorySpec == Init /\ [][HistoryNext]_vars

\* construction with the distributed backend reachable
InitRedis ==
    /\ InitStore
    /\ faulty = FALSE
    /\ cache = NewCache(TRUE)

\* start_or_get_conversation and add_interaction over every classification
ClassifyNext ==
    \/ StartOrGetConversation
    \/ AddInteraction
    \/ AddClassifiedInteraction
    \/ Tick

ClassifySpec == InitRedis /\ [][ClassifyNext]_vars

\* every operation of the facade
FacadeNext ==
    \/ StartOrGetConversation
    \/ AddInteraction
    \/ UpdateConversationStatus
    \/ GetConversationContext
    \/ GetConversationHistory
    \/ GetCustomerConversationHistory
    \/ Tick

FacadeSpec == InitRedis /\ [][FacadeNext]_vars

(***************************************************************************)
(* Concurrent callers.  Each facade call opens its own session             *)
(* (connection.py:49-60) on PostgreSQL's default isolation, READ           *)
(* COMMITTED: a SELECT sees what is committed when it runs and takes no    *)
(* lock, an UPDATE writes the values the session computed from the row it  *)
(* loaded.  A call is split at its query: Begin runs the block up to the   *)
(* query, Commit runs the rest of the block and the commit.                *)
(***************************************************************************)
\* start_or_get_conversation up to `.first()` (lines 45-52)
BeginStart(w) ==
    \E customer_id \in Customers :
        LET recent == RecentConversation(conversations, customer_id)
        IN  \E found \in (IF recent = {} THEN {0} ELSE recent) :
                /\ inflight[w] = Idle
                /\ calls + Cardinality({v \in Workers : inflight[v] # Idle}) < MaxCalls
                /\ inflight' = [inflight EXCEPT ![w] =
                                   [op |-> "start_or_get_conversation",
                                    customer_id |-> customer_id,
                                    found |-> found]]
                /\ UNCHANGED <<now, faulty, rate_limiter, task, twin, cache, conversations, messages,
                               kb_usage, next_id, calls, failures, ret, last_start,
                               transitioned, written>>

\* a commit that looks for an open conversation once more before it inserts
CommitFound_Requery(w) ==
    LET recent == RecentConversation(conversations, inflight[w].customer_id)
    IN  IF inflight[w].found # 0 \/ recent = {} THEN inflight[w].found
        ELSE CHOOSE i \in recent : TRUE

\* `if conversation:` (line 54) tests the object the query returned
CommitFound(w) == inflight[w].found

\* start_or_get_conversation from line 54 to the commit
CommitStart(w) ==
    \E initial_message \in {"m1"}, fail \in {"none", "commit"} :
        /\ inflight[w] # Idle
        /\ inflight[w].op = "start_or_get_conversation"
        /\ StartStep(inflight[w].customer_id, initial_message, PyNone,
                     CommitFound(w), fail, 3, TRUE)
        /\ inflight' = [inflight EXCEPT ![w] = Idle]
        /\ UNCHANGED twin

\* add_interaction up to the attribute assignments (lines 91-122): row is the
\* ConversationDB object as loaded, object the same after the assignments
BeginInteraction(w) ==
    \E conversation_id \in DOMAIN conversations, metadata \in Metadatas :
        /\ inflight[w] = Idle
        /\ calls + Cardinality({v \in Workers : inflight[v] # Idle}) < MaxCalls
        /\ inflight' = [inflight EXCEPT ![w] =
                           [op |-> "add_interaction",
                            conversation_id |-> conversation_id,
                            metadata |-> metadata,
                            row |-> conversations[conversation_id],
                            object |-> InteractionRow(conversations[conversation_id],
                                                      metadata)]]
        /\ UNCHANGED <<now, faulty, rate_limiter, task, twin, cache, conversations, messages, kb_usage,
                       next_id, calls, failures, ret, last_start, transitioned,
                       written>>

\* the UPDATE of the flush, applied to the row as committed by now: it sets the
\* columns whose attribute differs from the loaded value, and updated_at
\* (assigned, or filled by onupdate=func.now())
WriteBack(current, row, object) ==
    LET flushed == FlushedRow(row, object)
    IN  [current EXCEPT
            !.message_count = flushed.message_count,
            !.updated_at = now,
            !.category = IF flushed.category # row.category
                         THEN flushed.category ELSE @,
            !.priority = IF flushed.priority # row.priority
                         THEN flushed.priority ELSE @,
            !.escalated = IF flushed.escalated # row.escalated
                          THEN flushed.escalated ELSE @,
            !.classification_history =
                IF flushed.classification_history # row.classification_history
                THEN flushed.classification_history ELSE @]

\* the two inserts, the UPDATE and the knowledge-base rows of one session
RaceInteractionTx(db, w, user_message, agent_response) ==
    LET id == inflight[w].conversation_id
        tx1 == InsertMessage(db, id, "user", user_message)
        tx2 == InsertMessage(tx1, id, "assistant", agent_response)
        tx3 == [tx2 EXCEPT !.conversations[id] =
                              WriteBack(@, inflight[w].row, inflight[w].object)]
    IN  TrackKbUsage(tx3, id, inflight[w].metadata.articles_used)

\* add_interaction from _track_kb_usage to the commit
CommitInteraction(w) ==
    \E user_message \in {"m2"}, fail \in {"none", "commit"} :
        LET id == inflight[w].conversation_id
            after == get_session(DB, RaceInteractionTx(DB, w, user_message, "reply"),
                                 fail # "none")
        IN  /\ inflight[w] # Idle
            /\ inflight[w].op = "add_interaction"
            /\ Ended(fail # "none")
            /\ conversations' = after.conversations
            /\ messages' = after.messages
            /\ kb_usage' = after.kb_usage
            /\ cache' = set_conversation(
                            add_message(
                                add_message(cache, id,
                                            CachedMessage("user", user_message), 3),
                                id, CachedMessage("assistant", "reply"), 3),
                            id, Snapshot(inflight[w].object), TRUE)
            /\ ret' = [op |-> "add_interaction",
                       conversation_id |-> id,
                       message |-> user_message,
                       classified |-> inflight[w].metadata.classification # None,
                       articles |-> Len(inflight[w].metadata.articles_used),
                       outcome |-> IF fail = "none" THEN "ok" ELSE "raised",
                       raised_at |-> fail]
            /\ inflight' = [inflight EXCEPT ![w] = Idle]
            /\ UNCHANGED <<now, faulty, rate_limiter, task, twin, next_id, last_start, transitioned,
                           written>>

RaceNext ==
    \/ \E w \in Workers : BeginStart(w)
    \/ \E w \in Workers : CommitStart(w)
    \/ \E w \in Workers : BeginInteraction(w)
    \/ \E w \in Workers : CommitInteraction(w)
    \/ Tick

RaceSpec == Init /\ [][RaceNext]_vars

\* update_conversation_status up to the invalidation (lines 221-238): the row
\* is loaded, its attributes are assigned and the cache entries are deleted,
\* all before the with-block is left
BeginStatus(w) ==
    \E conversation_id \in DOMAIN conversations, status \in {"escalated", "resolved"} :
        /\ inflight[w] = Idle
        /\ calls + Cardinality({v \in Workers : inflight[v] # Idle}) < MaxCalls
        /\ inflight' = [inflight EXCEPT ![w] =
                           [op |-> "update_conversation_status",
                            conversation_id |-> conversation_id,
                            status |-> status,
                            row |-> conversations[conversation_id],
                            object |-> StatusRow(conversations[conversation_id],
                                                 status, PyNone)]]
        /\ cache' = invalidate_conversation(cache, conversation_id, 2)
        /\ UNCHANGED <<now, faulty, rate_limiter, task, twin, conversations, messages, kb_usage,
                       next_id, calls, failures, ret, last_start, transitioned,
                       written>>

\* the UPDATE of that session's flush, applied to the row as committed by
\* now: the columns whose attribute differs from the loaded value
StatusWriteBack(current, row, object) ==
    [current EXCEPT
        !.status = IF object.status # row.status THEN object.status ELSE @,
        !.updated_at = now,
        !.resolved_at = IF object.resolved_at # row.resolved_at
                        THEN object.resolved_at ELSE @,
        !.escalated = IF object.escalated # row.escalated
                      THEN object.escalated ELSE @,
        !.human_agent_id = IF object.human_agent_id # row.human_agent_id
                           THEN object.human_agent_id ELSE @]

\* update_conversation_status: leaving the with-block, the commit
CommitStatus(w) ==
    LET id == inflight[w].conversation_id
    IN  /\ inflight[w] # Idle
        /\ inflight[w].op = "update_conversation_status"
        /\ Ended(FALSE)
        /\ conversations' = [conversations EXCEPT ![id] =
                                StatusWriteBack(@, inflight[w].row, inflight[w].object)]
        /\ ret' = [op |-> "update_conversation_status",
                   conversation_id |-> id,
                   status |-> inflight[w].status,
                   human_agent_id |-> PyNone,
                   outcome |-> "ok",
                   value |-> None]
        /\ transitioned' = transitioned \cup {id}
        /\ inflight' = [inflight EXCEPT ![w] = Idle]
        /\ UNCHANGED <<now, faulty, rate_limiter, task, twin, cache, messages, kb_usage, next_id,
                       last_start, written>>

\* a status update running beside reads and interactions of other callers
StatusRaceNext ==
    \/ StartOrGetConversation
    \/ \E w \in Workers : BeginStatus(w)
    \/ \E w \in Workers : CommitStatus(w)
    \/ \E w \in Workers : BeginInteraction(w)
    \/ \E w \in Workers : CommitInteraction(w)
    \/ GetConversationContext

StatusRaceSpec == InitRedis /\ [][StatusRaceNext]_vars

(***************************************************************************)
(* The callers that write a status: the API's escalate and resolve         *)
(* endpoints (src/src/api/main.py), the agent                              *)
(* (src/src/workflows/conversation_agent.py) and the cleanup task          *)
(* (src/src/workflows/async_tasks.py).  The clock counts hours.            *)
(***************************************************************************)
\* an endpoint that re-opens where it should resolve
EndpointStatus_Reopen(endpoint) ==
    IF endpoint = "escalate_conversation" THEN "escalated" ELSE "open"

\* the status each endpoint passes to update_conversation_status
EndpointStatus(endpoint) ==
    IF endpoint = "escalate_conversation" THEN "escalated" ELSE "resolved"

\* get_conversation_context, 404 when it returns nothing, else
\* update_conversation_status(conversation_id, status); an exception is
\* answered with a 500
ApiSetStatus(endpoint) ==
    \E conversation_id \in ConvIds, fail \in {"none", "commit"},
       ok1 \in Oks, ok2 \in Oks, n \in Answered(2) :
        LET context == ContextResult(cache, conversations, conversation_id, ok1)
            filled == ContextCache(cache, conversations, conversation_id, ok1, ok2)
            tx == StatusTx(DB, conversation_id, EndpointStatus(endpoint), PyNone)
            after == IF context = None THEN DB
                     ELSE get_session(DB, tx, fail # "none")
        IN  /\ context = None => fail = "none"
            /\ Ended(fail # "none")
            /\ conversations' = after.conversations
            /\ messages' = after.messages
            /\ kb_usage' = after.kb_usage
            /\ cache' = IF context = None THEN filled
                        ELSE StatusCache(filled, conversation_id, n)
            /\ ret' = [op |-> endpoint,
                       conversation_id |-> conversation_id,
                       outcome |-> IF context = None THEN "404"
                                   ELSE IF fail # "none" THEN "500" ELSE "200"]
            /\ transitioned' =
                  IF context # None /\ fail = "none"
                     /\ conversation_id \in DOMAIN conversations
                  THEN transitioned \cup {conversation_id}
                  ELSE transitioned
            /\ UNCHANGED <<now, faulty, rate_limiter, task, twin, inflight, next_id, last_start, written>>

EscalateConversation == ApiSetStatus("escalate_conversation")

ResolveConversation == ApiSetStatus("resolve_conversation")

\* handle_customer_message, step 6: the conversation it has just written to
\* is escalated when the classification asks for a human
AgentEscalate ==
    \E conversation_id \in DOMAIN conversations, fail \in {"none", "commit"},
       n \in Answered(2) :
        LET tx == StatusTx(DB, conversation_id, "escalated", PyNone)
            after == get_session(DB, tx, fail # "none")
        IN  /\ Ended(fail # "none")
            /\ conversations' = after.conversations
            /\ messages' = after.messages
            /\ kb_usage' = after.kb_usage
            /\ cache' = StatusCache(cache, conversation_id, n)
            /\ ret' = [op |-> "handle_customer_message",
                       conversation_id |-> conversation_id,
                       outcome |-> IF fail = "none" THEN "ok" ELSE "fallback"]
            /\ transitioned' = IF fail = "none"
                               THEN transitioned \cup {conversation_id}
                               ELSE transitioned
            /\ UNCHANGED <<now, faulty, rate_limiter, task, twin, inflight, next_id, last_start, written>>

\* days_old of cleanup_old_conversations: its default, and 0
DefaultDaysOld == 90

DaysOld == {0, DefaultDaysOld}

\* conv.status = 'archived'; updated_at is filled by onupdate=func.now()
ArchivedRow(row) == [row EXCEPT !.status = "archived", !.updated_at = now]

\* the query with a cutoff that takes in the rows resolved at the cutoff
OldConversations_Inclusive(convs, days_old) ==
    {i \in DOMAIN convs :
        /\ convs[i].status = "resolved"
        /\ convs[i].resolved_at # None
        /\ convs[i].resolved_at[1] <= now - days_old * 24}

\* the rows the task's query selects
OldConversations(convs, days_old) ==
    {i \in DOMAIN convs :
        /\ convs[i].status = "resolved"
        /\ convs[i].resolved_at # None
        /\ convs[i].resolved_at[1] < now - days_old * 24}

CleanupOldConversations ==
    \E days_old \in DaysOld, fail \in {"none", "commit"} :
        LET old_conversations == OldConversations(conversations, days_old)
            tx == [DB EXCEPT !.conversations =
                      [i \in DOMAIN conversations |->
                          IF i \in old_conversations
                          THEN ArchivedRow(conversations[i])
                          ELSE conversations[i]]]
            after == get_session(DB, tx, fail # "none")
        IN  /\ Ended(fail # "none")
            /\ conversations' = after.conversations
            /\ messages' = after.messages
            /\ kb_usage' = after.kb_usage
            /\ ret' = [op |-> "cleanup_old_conversations",
                       days_old |-> days_old,
                       outcome |-> IF fail = "none" THEN "success" ELSE "error",
                       archived_count |-> IF fail = "none"
                                          THEN Cardinality(old_conversations)
                                          ELSE 0]
            /\ UNCHANGED <<now, faulty, rate_limiter, task, twin, inflight, cache, next_id, last_start,
                           transitioned, written>>

CallersNext ==
    \/ StartOrGetConversation
    \/ AddInteraction
    \/ UpdateConversationStatus
    \/ EscalateConversation
    \/ ResolveConversation
    \/ AgentEscalate
    \/ CleanupOldConversations
    \/ Tick

CallersSpec == InitRedis /\ [][CallersNext]_vars

(***************************************************************************)
(* ProductionConversationAgent.handle_customer_message                     *)
(* (src/src/workflows/conversation_agent.py), the whole workflow: each     *)
(* facade call runs in its own session on the store and cache the call     *)
(* before it left.  given is the conversation_id argument (0: None).       *)
(***************************************************************************)
\* classification.model_dump(): every field of TicketClassification is there
AgentClassifications ==
    {cl \in Classifications \cup MoreClassifications :
        "requires_human_escalation" \in DOMAIN cl}

HandleCustomerMessage ==
    \E customer_id \in Customers, message \in Contents,
       given \in {0} \cup DOMAIN conversations,
       classification \in AgentClassifications, fail \in {"none", "start"} :
      LET recent == RecentConversation(conversations, customer_id)
      IN  \E found \in (IF given # 0 \/ recent = {} THEN {0} ELSE recent) :
        LET new_id == next_id + 1
            \* step 1
            id == IF given # 0 THEN given ELSE IF found # 0 THEN found ELSE new_id
            is_new_conversation == given = 0
            db1 == IF given = 0
                   THEN StartTx(DB, customer_id, message, PyNone, found, new_id)
                   ELSE DB
            c1 == IF given = 0
                  THEN StartCache(cache, customer_id, message, PyNone, found,
                                  new_id, 3, TRUE)
                  ELSE cache
            \* step 2
            c2 == ContextCache(c1, db1.conversations, id, TRUE, TRUE)
            history == HistoryRows(db1.messages, id, DefaultHistoryLimit)
            c3 == IF HistoryHit(c2, id, DefaultHistoryLimit, TRUE)
                  THEN c2
                  ELSE Backfill(c2, id, history, [i \in 1..Len(history) |-> 3])
            \* step 5
            user_message == IF is_new_conversation THEN "" ELSE message
            metadata == [classification |-> Some(classification),
                         articles_used |-> <<"kb_001">>]
            db2 == InteractionTx(db1, id, user_message, "reply", metadata, "none")
            c4 == set_conversation(
                      add_message(
                          add_message(c3, id, CachedMessage("user", user_message), 3),
                          id, CachedMessage("assistant", "reply"), 3),
                      id, Snapshot(InteractionRow(db1.conversations[id], metadata)),
                      TRUE)
            \* step 6
            escalated == classification.requires_human_escalation
            db3 == IF escalated THEN StatusTx(db2, id, "escalated", PyNone) ELSE db2
            c5 == IF escalated THEN invalidate_conversation(c4, id, 2) ELSE c4
            \* step 7: "conversation_context" of the result
            c6 == ContextCache(c5, db3.conversations, id, TRUE, TRUE)
            raised == fail # "none"
        IN  /\ fail = "start" => given = 0
            /\ (given = 0 /\ found = 0) => next_id < MaxConv
            /\ Ended(raised)
            /\ conversations' = IF raised THEN conversations ELSE db3.conversations
            /\ messages' = IF raised THEN messages ELSE db3.messages
            /\ kb_usage' = IF raised THEN kb_usage ELSE db3.kb_usage
            /\ cache' = IF raised THEN c1 ELSE c6
            /\ next_id' = IF given = 0 /\ found = 0 THEN new_id ELSE next_id
            /\ ret' = IF raised
                      THEN [op |-> "handle_customer_message",
                            conversation_id |-> 0,
                            outcome |-> "fallback",
                            escalated |-> TRUE]
                      ELSE [op |-> "handle_customer_message",
                            conversation_id |-> id,
                            outcome |-> "ok",
                            escalated |-> escalated,
                            is_new_conversation |-> is_new_conversation,
                            conversation_context |->
                                ContextResult(c5, db3.conversations, id, TRUE)]
            /\ last_start' = IF given = 0 /\ ~raised
                             THEN [last_start EXCEPT ![customer_id] = id]
                             ELSE last_start
            /\ transitioned' = IF raised THEN transitioned ELSE transitioned \ {id}
            /\ UNCHANGED <<now, faulty, rate_limiter, task, twin, inflight, written>>

AgentNext ==
    \/ HandleCustomerMessage
    \/ Tick

AgentSpec == Init /\ [][AgentNext]_vars

(***************************************************************************)
(* The cache layer called directly, as src/src/test/test_redis_docker.py   *)
(* and the health checks do                                                *)
(***************************************************************************)
\* snapshots handed to set_conversation: two that json encodes as they are,
\* and one holding a datetime
SnapshotInputs ==
    {[customer_id |-> "c1", status |-> st, customer_context |-> "{'plan': 'Pro'}"] :
        st \in {"open", "resolved"}}
    \cup {[customer_id |-> "c1", status |-> "open", customer_context |-> DatetimeCtx]}

Limits == {0, 1, WindowCap + 1}

CacheSetConversation ==
    \E id \in ConvIds, data \in SnapshotInputs, ok \in Oks :
        /\ Ended(FALSE)
        /\ cache' = set_conversation(cache, id, data, ok)
        /\ written' = [written EXCEPT ![id] = Some([data |-> data, at |-> now])]
        /\ ret' = [op |-> "set_conversation", conversation_id |-> id,
                   outcome |-> "ok"]
        /\ UNCHANGED <<now, faulty, rate_limiter, task, twin, inflight, conversations, messages, kb_usage, next_id,
                       last_start, transitioned>>

CacheGetConversation ==
    \E id \in ConvIds, ok \in Oks :
        /\ Ended(FALSE)
        /\ ret' = [op |-> "get_conversation", conversation_id |-> id,
                   outcome |-> "ok",
                   value |-> get_conversation(cache, id, ok)]
        /\ UNCHANGED <<now, faulty, rate_limiter, task, twin, inflight, cache, conversations, messages, kb_usage,
                       next_id, last_start, transitioned, written>>

CacheAddMessage ==
    \E id \in ConvIds, role \in {"user", "assistant"}, n \in Answered(3) :
        /\ Ended(FALSE)
        /\ cache' = add_message(cache, id, CachedMessage(role, "m1"), n)
        /\ ret' = [op |-> "add_message", conversation_id |-> id,
                   message |-> CachedMessage(role, "m1"), outcome |-> "ok"]
        /\ UNCHANGED <<now, faulty, rate_limiter, task, twin, inflight, conversations, messages, kb_usage, next_id,
                       last_start, transitioned, written>>

CacheGetRecentMessages ==
    \E id \in ConvIds, limit \in Limits, ok \in Oks :
        /\ Ended(FALSE)
        /\ ret' = [op |-> "get_recent_messages", conversation_id |-> id,
                   limit |-> limit, outcome |-> "ok",
                   value |-> get_recent_messages(cache, id, limit, ok)]
        /\ UNCHANGED <<now, faulty, rate_limiter, task, twin, inflight, cache, conversations, messages, kb_usage,
                       next_id, last_start, transitioned, written>>

CacheInvalidateConversation ==
    \E id \in ConvIds, n \in Answered(2) :
        /\ Ended(FALSE)
        /\ cache' = invalidate_conversation(cache, id, n)
        /\ written' = [written EXCEPT ![id] = None]
        /\ ret' = [op |-> "invalidate_conversation", conversation_id |-> id,
                   outcome |-> "ok",
                   held |-> get_conversation(cache, id, TRUE) # None]
        /\ UNCHANGED <<now, faulty, rate_limiter, task, twin, inflight, conversations, messages, kb_usage, next_id,
                       last_start, transitioned>>

CachePing ==
    \E ok \in Oks :
        /\ Ended(FALSE)
        /\ ret' = [op |-> "ping",
                   outcome |-> IF ping(cache, ok) = "raised" THEN "raised" ELSE "ok"]
        /\ UNCHANGED <<now, faulty, rate_limiter, task, twin, inflight, cache, conversations, messages, kb_usage,
                       next_id, last_start, transitioned, written>>

CacheNext ==
    \/ CacheSetConversation
    \/ CacheGetConversation
    \/ CacheAddMessage
    \/ CacheGetRecentMessages
    \/ CacheInvalidateConversation
    \/ CachePing
    \/ Tick

CacheSpec == Init /\ [][CacheNext]_vars

\* the cache layer with its classification entries
MessageHashes == {"h1"}

CacheCacheClassification ==
    \E message_hash \in MessageHashes, classification \in Classifications,
       ok \in Oks :
        /\ Ended(FALSE)
        /\ cache' = cache_classification(cache, message_hash, classification, ok)
        /\ ret' = [op |-> "cache_classification", message_hash |-> message_hash,
                   outcome |-> "ok"]
        /\ UNCHANGED <<now, faulty, rate_limiter, task, twin, inflight, conversations, messages, kb_usage,
                       next_id, last_start, transitioned, written>>

CacheGetCachedClassification ==
    \E message_hash \in MessageHashes, ok \in Oks :
        /\ Ended(FALSE)
        /\ ret' = [op |-> "get_cached_classification",
                   message_hash |-> message_hash,
                   outcome |-> "ok",
                   value |-> get_cached_classification(cache, message_hash, ok)]
        /\ UNCHANGED <<now, faulty, rate_limiter, task, twin, inflight, cache, conversations, messages,
                       kb_usage, next_id, last_start, transitioned, written>>

CacheAllNext ==
    \/ CacheNext
    \/ CacheCacheClassification
    \/ CacheGetCachedClassification

CacheAllSpec == Init /\ [][CacheAllNext]_vars

\* the same calls over a backend that may fail after startup
InitFault ==
    /\ InitStore
    /\ faulty = TRUE
    /\ \E redisMode \in BOOLEAN : cache = NewCache(redisMode)

CacheFaultSpec == InitFault /\ [][CacheNext]_vars

(***************************************************************************)
(* RateLimiter (src/src/api/security.py).  rate_limiter.clock is           *)
(* time.time() in seconds, rate_limiter.requests the dict of timestamps    *)
(* per client id; rate_limiter.accepted is history: per client, the times  *)
(* of the calls that returned True.  send_message is a coroutine, so one   *)
(* check runs at a time.                                                   *)
(***************************************************************************)
RateMaxRequests == 2
RateWindow == 2
RateMaxClock == 4
RateMaxCalls == 6

\* [req for req in self.requests[client_id] if now - req < window]
PruneRequests(reqs, t, window) == SelectSeq(reqs, LAMBDA req : t - req < window)

\* a limit test that lets one request too many through
RateLimitExceeded_OffByOne(reqs, max_requests) == Len(reqs) > max_requests

\* len(self.requests[client_id]) >= max_requests
RateLimitExceeded(reqs, max_requests) == Len(reqs) >= max_requests

\* the dict after the call and the value returned
check_rate_limit(requests, t, client_id, max_requests, window) ==
    LET known == IF client_id \in DOMAIN requests THEN requests[client_id] ELSE << >>
        kept == PruneRequests(known, t, window)
    IN  IF RateLimitExceeded(kept, max_requests)
        THEN [requests |-> Put(requests, client_id, kept), value |-> FALSE]
        ELSE [requests |-> Put(requests, client_id, Append(kept, t)), value |-> TRUE]

CheckRateLimit ==
    \E client_id \in Customers :
        LET t == rate_limiter.clock
            done == check_rate_limit(rate_limiter.requests, t, client_id,
                                     RateMaxRequests, RateWindow)
        IN  /\ calls < RateMaxCalls
            /\ calls' = calls + 1
            /\ rate_limiter' =
                  [rate_limiter EXCEPT
                      !.requests = done.requests,
                      !.accepted[client_id] = IF done.value THEN Append(@, t) ELSE @]
            /\ ret' = [op |-> "check_rate_limit", client_id |-> client_id,
                       outcome |-> "ok", value |-> done.value]
            /\ UNCHANGED <<now, faulty, task, cache, conversations, messages, kb_usage,
                           next_id, failures, last_start, transitioned, written,
                           twin, inflight>>

\* a second passes
RateTick ==
    /\ rate_limiter.clock < RateMaxClock
    /\ rate_limiter' = [rate_limiter EXCEPT !.clock = @ + 1]
    /\ ret' = [op |-> "tick"]
    /\ UNCHANGED <<now, faulty, task, cache, conversations, messages, kb_usage,
                   next_id, calls, failures, last_start, transitioned, written,
                   twin, inflight>>

RateNext ==
    \/ CheckRateLimit
    \/ RateTick

RateSpec == InitRedis /\ [][RateNext]_vars

(***************************************************************************)
(* send_escalation_email: a Celery task, its clock in seconds              *)
(***************************************************************************)
\* self.retry(exc=e, countdown=60, max_retries=3)
RetryCountdown == 60

MaxRetries == 3

\* seconds the clock advances in one step, and how late past its eta a
\* worker may pick a queued task up
TaskTickStep == 30

TaskMaxLate == 30

\* a retry that is granted once more than max_retries allows
Retry_OneMore(t, countdown, max_retries) ==
    IF t.retries > max_retries
    THEN [t EXCEPT !.state = "FAILURE"]
    ELSE [t EXCEPT !.state = "RETRY", !.retries = @ + 1,
                   !.eta = t.clock + countdown]

\* self.retry: the task is queued again with the countdown while fewer than
\* max_retries retries were made, and fails with exc after that
Retry(t, countdown, max_retries) ==
    IF t.retries >= max_retries
    THEN [t EXCEPT !.state = "FAILURE"]
    ELSE [t EXCEPT !.state = "RETRY", !.retries = @ + 1,
                   !.eta = t.clock + countdown]

\* send_escalation_email.delay(conversation_id=..., ...)
Delay ==
    \E conversation_id \in ConvIds :
        /\ task.state = "NONE"
        /\ task' = [task EXCEPT !.state = "PENDING",
                                !.conversation_id = conversation_id,
                                !.retries = 0, !.eta = task.clock,
                                !.runs = << >>]
        /\ ret' = [op |-> "delay", conversation_id |-> conversation_id]
        /\ UNCHANGED <<now, faulty, rate_limiter, twin, inflight, cache,
                       conversations, messages, kb_usage, next_id, calls,
                       failures, last_start, transitioned, written>>

\* one execution of the task by a worker: the body reads the context and
\* builds the mail; any exception, context.get on an absent context
\* included, goes to self.retry
RunSendEscalationEmail ==
    \E ok1 \in Oks, ok2 \in Oks, fail \in {"none", "commit"} :
        LET conversation_id == task.conversation_id
            hit == get_conversation(cache, conversation_id, ok1) # None
            raised == ~hit /\ fail # "none"
            context == IF raised
                       THEN None
                       ELSE ContextResult(cache, conversations,
                                          conversation_id, ok1)
            ran == [task EXCEPT !.runs = Append(@, task.clock)]
            after == IF raised \/ context = None
                     THEN Retry(ran, RetryCountdown, MaxRetries)
                     ELSE [ran EXCEPT !.state = "SUCCESS"]
        IN  /\ task.state \in {"PENDING", "RETRY"}
            /\ task.clock >= task.eta
            /\ hit => fail = "none"
            /\ raised => failures < MaxFailures
            /\ failures' = IF raised THEN failures + 1 ELSE failures
            /\ cache' = ContextCache(cache, conversations, conversation_id,
                                     ok1, ok2)
            /\ task' = after
            /\ ret' = [op |-> "send_escalation_email",
                       conversation_id |-> conversation_id,
                       outcome |-> after.state]
            /\ transitioned' = IF raised
                               THEN transitioned
                               ELSE transitioned \ {conversation_id}
            /\ UNCHANGED <<now, faulty, rate_limiter, twin, inflight,
                           conversations, messages, kb_usage, next_id, calls,
                           last_start, written>>

\* time passes while the task waits in the queue
TaskTick ==
    /\ task.state \in {"PENDING", "RETRY"}
    /\ task.clock < task.eta + TaskMaxLate
    /\ task' = [task EXCEPT !.clock = @ + TaskTickStep]
    /\ ret' = [op |-> "task_tick"]
    /\ UNCHANGED <<now, faulty, rate_limiter, twin, inflight, cache,
                   conversations, messages, kb_usage, next_id, calls,
                   failures, last_start, transitioned, written>>

TaskNext ==
    \/ StartOrGetConversation
    \/ Delay
    \/ RunSendEscalationEmail
    \/ TaskTick

TaskSpec == InitRedis /\ [][TaskNext]_vars

\* a worker takes every task that stays ready, and time does not stop
TaskFairSpec ==
    /\ TaskSpec
    /\ WF_vars(RunSendEscalationEmail)
    /\ WF_vars(TaskTick)

(***************************************************************************)
(* Claims                                                                  *)
(***************************************************************************)
\* the Message rows persisted for a conversation
RowsOf(id) == {i \in 1..Len(messages) : messages[i].conversation_id = id}

\* the committed conversations of a customer
ConversationsOf(customer_id) ==
    {id \in DOMAIN conversations : conversations[id].customer_id = customer_id}

\* the open or in_progress conversations of a customer last updated less
\* than 4 hours ago, and the most recently updated among them
OpenWithinWindow(customer_id) ==
    {id \in ConversationsOf(customer_id) :
        /\ conversations[id].status \in {"open", "in_progress"}
        /\ now - conversations[id].updated_at < 4}

LatestOpenWithinWindow(customer_id) ==
    {id \in OpenWithinWindow(customer_id) :
        \A other \in OpenWithinWindow(customer_id) :
            conversations[other].updated_at <= conversations[id].updated_at}

\* this step is a start_or_get_conversation call that returned
StartReturned == calls' = calls + 1
                 /\ ret'.op = "start_or_get_conversation"
                 /\ ret'.outcome = "ok"

\* the step appended exactly the call's message, as a user message of the
\* conversation returned
StartAppended ==
    messages' = Append(messages, [conversation_id |-> ret'.value,
                                  role |-> "user",
                                  content |-> ret'.message])

\* C1: after any sequence of committed facade writes, every conversation's
\* message_count equals the number of Message rows persisted for it.
C1_MessageCountEqualsRows ==
    \A id \in DOMAIN conversations :
        conversations[id].message_count = Cardinality(RowsOf(id))

\* C2 (as claimed): a start_or_get_conversation call issued within 4 hours of
\* an existing open or in_progress conversation of the customer returns the id
\* the most recent prior call for that customer returned, creates no row and
\* appends the message to that conversation.
C2_ReturnsIdOfPriorCall ==
    [][(StartReturned /\ OpenWithinWindow(ret'.customer_id) # {})
        => /\ ret'.value = last_start[ret'.customer_id]
           /\ DOMAIN conversations' = DOMAIN conversations
           /\ StartAppended]_vars

\* C2 (amended): such a call returns the id of a most recently updated open
\* or in_progress conversation of the customer within the window, creates no
\* row and appends the message to that conversation.
C2_ContinuesLatestOpen ==
    [][(StartReturned /\ OpenWithinWindow(ret'.customer_id) # {})
        => /\ ret'.value \in LatestOpenWithinWindow(ret'.customer_id)
           /\ DOMAIN conversations' = DOMAIN conversations
           /\ StartAppended]_vars

\* a call continued a conversation after time had passed, within the window
C2_Witness ==
    /\ ret.op = "start_or_get_conversation"
    /\ ret.outcome = "ok"
    /\ Cardinality(RowsOf(ret.value)) >= 2
    /\ now > conversations[ret.value].updated_at

\* C3: for a customer with no prior conversation, one call creates exactly
\* one Conversation row (status open, the supplied context, message_count 1)
\* and exactly one Message row (role user, the initial message), and returns
\* that conversation's id.
C3_FirstCallCreatesOneRowEach ==
    [][(StartReturned /\ ConversationsOf(ret'.customer_id) = {})
        => /\ ret'.value \notin DOMAIN conversations
           /\ DOMAIN conversations' = DOMAIN conversations \cup {ret'.value}
           /\ \A id \in DOMAIN conversations : conversations'[id] = conversations[id]
           /\ conversations'[ret'.value].conversation_id = ret'.value
           /\ conversations'[ret'.value].customer_id = ret'.customer_id
           /\ conversations'[ret'.value].status = "open"
           /\ conversations'[ret'.value].message_count = 1
           /\ conversations'[ret'.value].customer_context =
                 (IF ret'.customer_context = PyNone THEN "{}"
                  ELSE ret'.customer_context)
           /\ StartAppended]_vars

\* a customer's first call returned, carrying a context
C3_Witness ==
    /\ ret.op = "start_or_get_conversation"
    /\ ret.outcome = "ok"
    /\ ConversationsOf(ret.customer_id) = {ret.value}
    /\ Cardinality(RowsOf(ret.value)) = 1
    /\ conversations[ret.value].customer_context = "{'plan': 'Pro'}"

\* C4: if the customer's only conversation was last updated more than 4 hours
\* before the call, the call returns a new id, different from the old one,
\* even when the old conversation is still open.
C4_StaleConversationNotContinued ==
    [][\A old \in DOMAIN conversations :
         (/\ StartReturned
          /\ ConversationsOf(ret'.customer_id) = {old}
          /\ now - conversations[old].updated_at > 4)
         => /\ ret'.value # old
            /\ ret'.value \notin DOMAIN conversations
            /\ ret'.value \in DOMAIN conversations']_vars

\* a call returned a new id while the customer's older conversation, updated
\* more than 4 hours ago, is still open
C4_Witness ==
    /\ ret.op = "start_or_get_conversation"
    /\ ret.outcome = "ok"
    /\ \E old \in ConversationsOf(ret.customer_id) :
          /\ old # ret.value
          /\ conversations[old].status = "open"
          /\ now - conversations[old].updated_at > 4
          /\ ConversationsOf(ret.customer_id) = {old, ret.value}

\* this step is an add_interaction call, returned or raised
InteractionEnded == calls' = calls + 1 /\ ret'.op = "add_interaction"

\* C5: add_interaction is atomic in the Durable Store: when the call fails
\* after the user-message insert and before the commit, no Message row, no
\* KnowledgeBaseUsage row and no metadata change of the call persists;
\* otherwise both Message rows, the KnowledgeBaseUsage rows and the metadata
\* change (message_count, updated_at, category, the classification_history
\* entry) persist together.
C5_InteractionAtomic ==
    [][InteractionEnded
        => IF ret'.outcome = "raised"
           THEN /\ messages' = messages
                /\ kb_usage' = kb_usage
                /\ conversations' = conversations
           ELSE /\ messages' = messages \o
                      <<[conversation_id |-> ret'.conversation_id,
                         role |-> "user", content |-> ret'.message],
                        [conversation_id |-> ret'.conversation_id,
                         role |-> "assistant", content |-> "reply"]>>
                /\ Len(kb_usage') = Len(kb_usage) + ret'.articles
                /\ \A i \in Len(kb_usage) + 1 .. Len(kb_usage') :
                      kb_usage'[i].conversation_id = ret'.conversation_id
                /\ conversations'[ret'.conversation_id].message_count =
                      conversations[ret'.conversation_id].message_count + 2
                /\ conversations'[ret'.conversation_id].updated_at = now
                /\ ret'.classified =>
                      /\ conversations'[ret'.conversation_id].category = "technical"
                      /\ Len(conversations'[ret'.conversation_id].classification_history)
                            = Len(conversations[ret'.conversation_id].classification_history) + 1]_vars

\* the cached message window and the cached snapshot of a conversation, as
\* a reader of the cache finds them
CachedWindow(id) ==
    IF cache.use_redis
    THEN RedisList(cache.redis, MsgKey(id))
    ELSE IF MsgKey(id) \in DOMAIN cache.memory_cache
            /\ MsgKey(id) \in DOMAIN cache.memory_expiry
            /\ ~(now > cache.memory_expiry[MsgKey(id)])
         THEN cache.memory_cache[MsgKey(id)]
         ELSE << >>

CachedSnapshot(id) ==
    IF cache.use_redis
    THEN IF RedisHas(cache.redis, ConvKey(id))
         THEN Some(cache.redis[ConvKey(id)].val.json)
         ELSE None
    ELSE IF ConvKey(id) \in DOMAIN cache.memory_cache
            /\ ConvKey(id) \in DOMAIN cache.memory_expiry
            /\ ~(now > cache.memory_expiry[ConvKey(id)])
         THEN Some(cache.memory_cache[ConvKey(id)])
         ELSE None

\* C6: the cache is written only after the store write has succeeded: the
\* cached message window of a conversation never holds more messages than the
\* store holds Message rows for it, and a cached snapshot never shows a
\* conversation the store lacks or a message_count above the committed one.
C6_CacheHoldsOnlyCommittedData ==
    \A id \in ConvIds :
        /\ Len(CachedWindow(id)) <= Cardinality(RowsOf(id))
        /\ CachedSnapshot(id) # None =>
              /\ id \in DOMAIN conversations
              /\ CachedSnapshot(id)[1].message_count
                    <= conversations[id].message_count

\* C7: after an update_conversation_status call on an existing conversation
\* has returned, the next get_conversation_context call for that id returns
\* the status and the escalated flag currently in the Durable Store.
C7_ContextAfterTransitionFromStore ==
    [][(/\ calls' = calls + 1
        /\ ret'.op = "get_conversation_context"
        /\ ret'.outcome = "ok"
        /\ ret'.conversation_id \in transitioned)
        => /\ ret'.value # None
           /\ ret'.value[1].status = conversations[ret'.conversation_id].status
           /\ ret'.value[1].escalated =
                 conversations[ret'.conversation_id].escalated]_vars

\* this step is a direct get_conversation call on the cache for an id whose
\* snapshot was set, with no set or invalidate for the id since
ReadBack == /\ calls' = calls + 1
            /\ ret'.op = "get_conversation"
            /\ written[ret'.conversation_id] # None

C9_WindowWithinLimit ==
    (ret.op = "get_recent_messages" /\ ret.value # << >>)
        => /\ Len(ret.value[1]) <= ret.limit
           /\ Len(ret.value[1]) <= 50

\* C10: no cache layer operation raises to its caller when the backend fails
\* after startup.
C10_CacheNeverRaises ==
    ret.op \in {"get_conversation", "set_conversation", "get_recent_messages",
                "add_message", "invalidate_conversation", "ping"}
        => ret.outcome # "raised"

\* C11: when the Durable Store fails during a facade operation, the
\* operation's transaction is rolled back, the durable state is left as it
\* was before the call, and the error is raised to the caller.
C11_StoreFailureRollsBackAndRaises ==
    [][failures' = failures + 1
        => /\ ret'.outcome = "raised"
           /\ conversations' = conversations
           /\ messages' = messages
           /\ kb_usage' = kb_usage]_vars

\* an add_interaction on an existing conversation, carrying a classification
\* and an article, failed at its commit and raised
C11_Witness ==
    /\ ret.op = "add_interaction"
    /\ ret.outcome = "raised"
    /\ ret.raised_at = "commit"
    /\ ret.classified
    /\ ret.articles > 0
    /\ ret.conversation_id \in DOMAIN conversations
    /\ failures = 1

\* C12: get_conversation_context and update_conversation_status called with
\* an id for which no Conversation exists report "not found" to the caller,
\* an outcome no call on an existing conversation produces (a successful
\* get_conversation_context returns a context, a successful
\* update_conversation_status returns nothing).
C12_NotFoundIsReported ==
    (/\ ret.op \in {"get_conversation_context", "update_conversation_status"}
     /\ ret.outcome = "ok"
     /\ ret.conversation_id \notin DOMAIN conversations)
        => IF ret.op = "get_conversation_context"
           THEN ret.value = << >>
           ELSE ret.value # << >>

\* C13: add_interaction does not persist the user message again when
\* start_or_get_conversation already persisted it: an interaction added to a
\* conversation that holds only its initial message leaves exactly two Message
\* rows, one user and one assistant, and message_count 2.
C13_InitialMessageNotRepeated ==
    [][(/\ InteractionEnded
        /\ ret'.outcome = "ok"
        /\ Cardinality(RowsOf(ret'.conversation_id)) = 1
        /\ conversations[ret'.conversation_id].message_count = 1)
        => /\ Cardinality({i \in 1..Len(messages') :
                  messages'[i].conversation_id = ret'.conversation_id}) = 2
           /\ Cardinality({i \in 1..Len(messages') :
                  /\ messages'[i].conversation_id = ret'.conversation_id
                  /\ messages'[i].role = "user"}) = 1
           /\ conversations'[ret'.conversation_id].message_count = 2]_vars

\* this step is an update_conversation_status call that returned, on a
\* conversation that exists
StatusUpdated == /\ calls' = calls + 1
                 /\ ret'.op = "update_conversation_status"
                 /\ ret'.outcome = "ok"
                 /\ ret'.conversation_id \in DOMAIN conversations

\* C14: update_conversation_status on an existing conversation sets status to
\* the given value, sets resolved_at exactly when the new status is resolved,
\* sets escalated = true and human_agent_id to the given agent exactly when
\* the new status is escalated, and leaves the conversation's messages,
\* message_count and classification_history unchanged.
C14_StatusUpdateWritesOnlyItsFields ==
    [][StatusUpdated =>
        LET old == conversations[ret'.conversation_id]
            new == conversations'[ret'.conversation_id]
        IN  /\ new.status = ret'.status
            /\ new.resolved_at =
                  IF ret'.status = "resolved" THEN <<now>> ELSE old.resolved_at
            /\ new.escalated =
                  IF ret'.status = "escalated" THEN TRUE ELSE old.escalated
            /\ new.human_agent_id =
                  IF ret'.status = "escalated"
                  THEN ret'.human_agent_id ELSE old.human_agent_id
            /\ messages' = messages
            /\ new.message_count = old.message_count
            /\ new.classification_history = old.classification_history]_vars

\* a conversation with a classification in its history was escalated to an
\* agent and later resolved
C14_Witness ==
    /\ ret.op = "update_conversation_status"
    /\ ret.outcome = "ok"
    /\ ret.status = "resolved"
    /\ ret.conversation_id \in DOMAIN conversations
    /\ conversations[ret.conversation_id].resolved_at = <<now>>
    /\ conversations[ret.conversation_id].escalated
    /\ conversations[ret.conversation_id].human_agent_id = "agent_7"
    /\ conversations[ret.conversation_id].message_count = 3

Commits(w, op) ==
    /\ inflight[w] # Idle
    /\ inflight[w].op = op
    /\ inflight'[w] = Idle

\* C16: a start_or_get_conversation whose query found no open conversation
\* creates one when it commits, whatever another caller has committed for the
\* same customer since the query; nothing between the query and the commit
\* checks again, and no step closes or removes one of the duplicates.
C16_InterleavedStartsBothCreate ==
    [][/\ \A w \in Workers :
            (Commits(w, "start_or_get_conversation") /\ inflight[w].found = 0
                /\ ret'.outcome = "ok")
            => /\ next_id' = next_id + 1
               /\ next_id' \in DOMAIN conversations'
               /\ conversations'[next_id'].customer_id = inflight[w].customer_id
               /\ conversations'[next_id'].status = "open"
               /\ ret'.value = next_id'
       /\ \A i \in DOMAIN conversations :
            /\ i \in DOMAIN conversations'
            /\ conversations'[i].status = conversations[i].status
            /\ conversations'[i].customer_id = conversations[i].customer_id]_vars

\* two calls for one customer have both created: two open conversations of
\* that customer inside the continuity window, one message each
C16_Witness ==
    \E i, j \in DOMAIN conversations :
        /\ i # j
        /\ conversations[i].customer_id = conversations[j].customer_id
        /\ \A k \in {i, j} :
            /\ conversations[k].status = "open"
            /\ conversations[k].updated_at > now - WindowHours
            /\ conversations[k].message_count = 1
            /\ Cardinality(RowsOf(k)) = 1
        /\ ret.op = "start_or_get_conversation"
        /\ ret.outcome = "ok"
        /\ \A w \in Workers : inflight[w] = Idle

\* C17: when an add_interaction commits on a row another add_interaction has
\* changed since this one loaded it, the commit succeeds, its two messages
\* are added to those already committed, and the row's message_count and,
\* when it classified, its category, priority, escalated and
\* classification_history are the values this writer computed.
C17_LastWriterWins ==
    [][\A w \in Workers :
        (/\ Commits(w, "add_interaction")
         /\ ret'.outcome = "ok"
         /\ conversations[inflight[w].conversation_id] # inflight[w].row)
        => LET id == inflight[w].conversation_id
               object == inflight[w].object
               stored == conversations'[id]
           IN  /\ Len(messages') = Len(messages) + 2
               /\ stored.message_count = object.message_count
               /\ inflight[w].metadata.classification # None
                  => /\ stored.category = object.category
                     /\ stored.priority = object.priority
                     /\ stored.escalated = object.escalated
                     /\ stored.classification_history =
                            object.classification_history]_vars

\* C18: in either backend, a message window that has expired stays absent:
\* an add_message on a conversation whose window is not readable (never
\* written, or written more than the TTL ago) starts a new window holding
\* that one message, as the distributed backend's expired key does.
C18_ExpiredWindowStaysAbsent ==
    [][\A id \in ConvIds :
        (/\ ret'.op = "add_message"
         /\ ret'.conversation_id = id
         /\ calls' = calls + 1
         /\ CachedWindow(id) = << >>)
        => Len(CachedWindow(id)') = 1]_vars

\* the status values of the Conversation entity
StatusValues == {"open", "in_progress", "resolved", "escalated", "archived"}

\* no conversation goes from resolved or escalated back to open or in_progress
ForwardOnly ==
    \A i \in DOMAIN conversations :
        conversations[i].status \in {"resolved", "escalated"}
        => conversations'[i].status \notin {"open", "in_progress"}

\* C19 (as stated): in every step of every operation, the facade's included,
\* status moves forward only and stays among the five status values.
C19_ForwardOnlyEverywhere ==
    [][/\ ForwardOnly
       /\ \A i \in DOMAIN conversations' :
            conversations'[i].status \in StatusValues]_vars

\* C19 (amended): the operations of the API, the agent and the cleanup task,
\* and the facade's operations other than update_conversation_status, move
\* status forward only: the status they write is escalated, resolved or
\* archived, archived only on a resolved conversation, and a new conversation
\* starts open.
C19_CallersForwardOnly ==
    [][ret'.op # "update_conversation_status"
       => /\ ForwardOnly
          /\ \A i \in DOMAIN conversations' :
                IF i \in DOMAIN conversations
                THEN \/ conversations'[i].status = conversations[i].status
                     \/ conversations'[i].status \in {"escalated", "resolved"}
                     \/ /\ conversations'[i].status = "archived"
                        /\ conversations[i].status = "resolved"
                ELSE conversations'[i].status = "open"]_vars

\* the cleanup task has archived a conversation the API had resolved
C19_Witness ==
    /\ ret.op = "cleanup_old_conversations"
    /\ ret.outcome = "success"
    /\ ret.archived_count >= 1
    /\ \E i \in DOMAIN conversations :
        /\ conversations[i].status = "archived"
        /\ conversations[i].resolved_at # None
        /\ conversations[i].updated_at > conversations[i].resolved_at[1]

\* C20: the id start_or_get_conversation returns is either a conversation it
\* has just created or one of the same customer whose status is open or
\* in_progress; when every conversation of the customer inside the
\* continuity window is resolved, escalated or archived, it creates one.
C20_NeverContinuesClosedOrForeign ==
    [][(/\ ret'.op = "start_or_get_conversation"
        /\ calls' = calls + 1
        /\ ret'.outcome = "ok")
       => /\ ret'.value \in DOMAIN conversations
             => /\ conversations[ret'.value].customer_id = ret'.customer_id
                /\ conversations[ret'.value].status \in {"open", "in_progress"}
          /\ (\A i \in DOMAIN conversations :
                (/\ conversations[i].customer_id = ret'.customer_id
                 /\ conversations[i].updated_at > now - WindowHours)
                => conversations[i].status \in {"resolved", "escalated", "archived"})
             => /\ ret'.value \notin DOMAIN conversations
                /\ ret'.value \in DOMAIN conversations'
                /\ conversations'[ret'.value].status = "open"
                /\ conversations'[ret'.value].customer_id = ret'.customer_id]_vars

\* a customer whose one recent conversation is archived, and another whose
\* conversation is open, are both present when the first one's call creates
C20_Witness ==
    /\ ret.op = "start_or_get_conversation"
    /\ ret.outcome = "ok"
    /\ ret.value \in DOMAIN conversations
    /\ Cardinality(RowsOf(ret.value)) = 1
    /\ \E i \in DOMAIN conversations :
        /\ i # ret.value
        /\ conversations[i].customer_id = ret.customer_id
        /\ conversations[i].status \in {"resolved", "escalated", "archived"}
        /\ conversations[i].updated_at > now - WindowHours

\* C21: a start_or_get_conversation that continues returns the qualifying
\* conversation with the latest updated_at, and the id is determined by the
\* inputs and the store state: no other qualifying conversation of the
\* customer could have been returned from the same state.
C21_LatestAndReproducible ==
    [][(/\ ret'.op = "start_or_get_conversation"
        /\ calls' = calls + 1
        /\ ret'.outcome = "ok"
        /\ ret'.value \in DOMAIN conversations)
       => /\ Qualifies(conversations[ret'.value], ret'.customer_id)
          /\ \A j \in DOMAIN conversations :
                Qualifies(conversations[j], ret'.customer_id)
                => conversations[j].updated_at <= conversations[ret'.value].updated_at
          /\ RecentConversation(conversations, ret'.customer_id) = {ret'.value}]_vars

\* a list in the opposite order
Reversed(list) == [i \in 1..Len(list) |-> list[Len(list) + 1 - i]]

\* C22: a get_conversation_history that misses the cache returns the first
\* `limit` persisted messages of the conversation in creation order and
\* leaves a cached window holding exactly those messages (newest first, as
\* the window keeps them), which the next call with the same limit reads.
C22_MissBackfillsExactlyHistory ==
    [][\A id \in ConvIds, limit \in HistoryLimits :
        (/\ ret'.op = "get_conversation_history"
         /\ calls' = calls + 1
         /\ ret'.outcome = "ok"
         /\ ret'.conversation_id = id
         /\ ret'.limit = limit
         /\ ~HistoryHit(cache, id, limit, TRUE))
        => /\ ret'.value = HistoryRows(messages, id, limit)
           /\ ret'.value # << >>
              => /\ HistoryHit(cache, id, limit, TRUE)'
                 /\ get_recent_messages(cache, id, WindowCap, TRUE)'
                       = Some(Reversed(ret'.value))]_vars

\* C23: every context get_conversation_context returns carries created_at,
\* updated_at and duration_minutes, whether it is the cached snapshot or is
\* built from the row read from the Durable Store.
C23_ContextCarriesTimestamps ==
    (/\ ret.op = "get_conversation_context"
     /\ ret.outcome = "ok"
     /\ ret.value # None)
    => {"created_at", "updated_at", "duration_minutes"} \subseteq DOMAIN ret.value[1]

\* the entries the cache holds under keys other than those of conversation id
OtherEntries(c, id) ==
    LET Others(f) == [k \in DOMAIN f \ {ConvKey(id), MsgKey(id)} |-> f[k]]
    IN  [redis |-> Others(c.redis),
         memory_cache |-> Others(c.memory_cache),
         memory_expiry |-> Others(c.memory_expiry)]

\* C24: after invalidate_conversation(id) both reads of that id miss
\* (get_conversation returns nothing, get_recent_messages nothing or an empty
\* list), and every entry of another conversation and every cached
\* classification is as it was.
C24_InvalidateRemovesOnlyItsEntries ==
    [][\A id \in ConvIds :
        (/\ ret'.op = "invalidate_conversation"
         /\ ret'.conversation_id = id
         /\ calls' = calls + 1)
        => /\ get_conversation(cache, id, TRUE)' = None
           /\ get_recent_messages(cache, id, WindowCap, TRUE)' \in {None, Some(<< >>)}
           /\ OtherEntries(cache, id)' = OtherEntries(cache, id)]_vars

\* a cached conversation was invalidated while another conversation's
\* snapshot and a classification stayed readable
C24_Witness ==
    /\ ret.op = "invalidate_conversation"
    /\ ret.held
    /\ \E j \in ConvIds \ {ret.conversation_id} :
          get_conversation(cache, j, TRUE) # None
    /\ \E h \in MessageHashes : get_cached_classification(cache, h, TRUE) # None

\* C25: a committed Message row is never changed and never deleted: every
\* step of the facade, the API endpoints, the agent and the cleanup task
\* leaves the persisted rows as they were and at most adds rows after them.
C25_MessagesImmutable ==
    [][/\ Len(messages') >= Len(messages)
       /\ SubSeq(messages', 1, Len(messages)) = messages]_vars

\* the cleanup task archived a conversation that had taken an interaction,
\* and its three Message rows are still persisted
C25_Witness ==
    /\ ret.op = "cleanup_old_conversations"
    /\ ret.archived_count > 0
    /\ \E i \in DOMAIN conversations :
          /\ conversations[i].status = "archived"
          /\ Len(SelectSeq(messages,
                 LAMBDA m : m.conversation_id = conversations[i].conversation_id)) = 3

\* C26: classification_history is append-only. A committed add_interaction
\* that carries a classification leaves the persisted history one entry
\* longer, the earlier entries in place before the new one; one without a
\* classification leaves it as it was; and no other step shortens it or
\* rewrites an entry.
C26_HistoryAppendOnly ==
    [][\A id \in DOMAIN conversations :
        LET before == conversations[id].classification_history
            after == conversations'[id].classification_history
            interaction == /\ ret'.op = "add_interaction"
                           /\ ret'.outcome = "ok"
                           /\ ret'.conversation_id = id
                           /\ calls' = calls + 1
        IN  /\ id \in DOMAIN conversations'
            /\ Len(after) >= Len(before)
            /\ SubSeq(after, 1, Len(before)) = before
            /\ (interaction /\ ret'.classified) => Len(after) = Len(before) + 1
            /\ (interaction /\ ~ret'.classified) => after = before]_vars

\* the number of persisted Message rows of conversation id
MessagesOf(msgs, id) ==
    Len(SelectSeq(msgs, LAMBDA m : m.conversation_id = id))

\* C27: every step that persists a further message of an existing
\* conversation, a continuation by start_or_get_conversation included, leaves
\* that conversation's updated_at at the time of the step.
C27_AppendAdvancesUpdatedAt ==
    [][\A id \in DOMAIN conversations :
        MessagesOf(messages', id) > MessagesOf(messages, id)
        => conversations'[id].updated_at = now']_vars

\* the snapshot entry the cache holds for conversation id, with its expiry
SnapshotEntry(c, id) ==
    IF c.use_redis
    THEN IF ConvKey(id) \in DOMAIN c.redis THEN <<c.redis[ConvKey(id)]>> ELSE << >>
    ELSE IF ConvKey(id) \in DOMAIN c.memory_cache
         THEN <<[val |-> c.memory_cache[ConvKey(id)],
                 exp |-> IF ConvKey(id) \in DOMAIN c.memory_expiry
                         THEN c.memory_expiry[ConvKey(id)] ELSE NoExpiry]>>
         ELSE << >>

\* the hours since the held snapshot entry was written: every write gives
\* the entry the expiry "time of writing + ConversationTtl"
SnapshotAge(c, id) == now - (SnapshotEntry(c, id)[1].exp - ConversationTtl)

\* C28: a snapshot that get_conversation_context returns from the cache was
\* written at most the TTL (4 hours) earlier. Every step that writes or
\* replaces a snapshot entry stamps it with the time of the step, and a call
\* that finds the snapshot in the cache finds one of age 0 to 4 hours.
C28_CachedContextWithinTtl ==
    [][\A id \in ConvIds :
        /\ (SnapshotEntry(cache', id) # SnapshotEntry(cache, id)
            /\ SnapshotEntry(cache', id) # << >>)
           => /\ now' = now
              /\ SnapshotEntry(cache', id)[1].exp = now + ConversationTtl
        /\ (/\ ret'.op = "get_conversation_context"
            /\ ret'.conversation_id = id
            /\ calls' = calls + 1
            /\ ret'.outcome = "ok"
            /\ get_conversation(cache, id, TRUE) # None)
           => /\ ret'.value = get_conversation(cache, id, TRUE)
              /\ SnapshotAge(cache, id) \in 0..ConversationTtl]_vars

\* get_conversation_context returned a snapshot written three hours before
C28_Witness ==
    /\ ret.op = "get_conversation_context"
    /\ ret.outcome = "ok"
    /\ ret.value # None
    /\ ret.value = get_conversation(cache, ret.conversation_id, TRUE)
    /\ SnapshotAge(cache, ret.conversation_id) = TickStep

\* C29: a committed add_interaction that carries a classification leaves
\* category, priority and escalated of the row equal to that classification's
\* values, escalated FALSE when it has no requires_human_escalation key,
\* whatever the row held before; one without a classification leaves the
\* three columns as they were.
C29_ClassificationSetsColumns ==
    [][\A id \in DOMAIN conversations :
        (/\ ret'.op = "add_interaction"
         /\ ret'.outcome = "ok"
         /\ ret'.conversation_id = id
         /\ calls' = calls + 1)
        => LET before == conversations[id]
               after == conversations'[id]
           IN  IF ret'.classification = None
               THEN /\ after.category = before.category
                    /\ after.priority = before.priority
                    /\ after.escalated = before.escalated
               ELSE LET cl == ret'.classification[1]
                    IN  /\ after.category = cl.category
                        /\ after.priority = cl.priority
                        /\ after.escalated =
                              IF "requires_human_escalation" \in DOMAIN cl
                              THEN cl.requires_human_escalation
                              ELSE FALSE]_vars

\* a conversation first classified as needing a human (the first history
\* entry) took a classification without the escalation key and now carries
\* that one's category and priority and escalated FALSE
C29_Witness ==
    /\ ret.op = "add_interaction"
    /\ ret.outcome = "ok"
    /\ ret.classification # None
    /\ "requires_human_escalation" \notin DOMAIN ret.classification[1]
    /\ ret.conversation_id \in DOMAIN conversations
    /\ LET row == conversations[ret.conversation_id]
       IN  /\ row.classification_history # << >>
           /\ "requires_human_escalation"
                  \in DOMAIN row.classification_history[1].classification
           /\ row.classification_history[1].classification.requires_human_escalation
           /\ row.category = "general"
           /\ row.priority = "medium"
           /\ ~row.escalated

\* C30: when start_or_get_conversation creates a new conversation although
\* the customer has an open one, last updated more than 4 hours before, the
\* earlier conversation is left as it was: its row is unchanged (status open,
\* message_count, updated_at) and no message is appended to it.
C30_StaleConversationLeftAlone ==
    [][\A old \in DOMAIN conversations :
         (/\ StartReturned
          /\ ret'.value \notin DOMAIN conversations
          /\ conversations[old].customer_id = ret'.customer_id
          /\ conversations[old].status = "open"
          /\ now - conversations[old].updated_at > 4)
         => /\ conversations'[old] = conversations[old]
            /\ conversations'[old].status = "open"
            /\ MessagesOf(messages', old) = MessagesOf(messages, old)
            /\ SelectSeq(messages', LAMBDA m : m.conversation_id = old)
                  = SelectSeq(messages, LAMBDA m : m.conversation_id = old)]_vars

\* a call has just created conversation 2 for a customer whose conversation
\* 1, six hours without an update, is still open with its one message
C30_Witness ==
    /\ ret.op = "start_or_get_conversation"
    /\ ret.outcome = "ok"
    /\ ret.value = 2
    /\ DOMAIN conversations = {1, 2}
    /\ conversations[2].created_at = now
    /\ MessagesOf(messages, 2) = 1
    /\ conversations[1].customer_id = ret.customer_id
    /\ conversations[1].status = "open"
    /\ conversations[1].updated_at = now - 2 * TickStep
    /\ conversations[1].message_count = 1
    /\ MessagesOf(messages, 1) = 1

\* the in-process fallback still holds a window of conversation id whose
\* time to live has passed
WindowExpired(id) ==
    /\ ~cache.use_redis
    /\ MsgKey(id) \in DOMAIN cache.memory_cache
    /\ is_expired(cache, MsgKey(id))

\* the messages of conversation id the cache has to give: what
\* get_recent_messages returns for the full window when the backend answers
ReadWindow(id) ==
    LET got == get_recent_messages(cache, id, WindowCap, TRUE)
    IN  IF got = None THEN << >> ELSE got[1]

\* C31: the cached window is most-recent-first. An add_message within the
\* TTL puts its message at index 0 in front of the messages held and keeps
\* the first 50; get_recent_messages(id, limit) returns the first
\* min(limit, 50, number held) of them, the newest first.
C31_WindowMostRecentFirst ==
    [][\A id \in ConvIds :
        /\ (/\ ret'.op = "add_message"
            /\ ret'.conversation_id = id
            /\ calls' = calls + 1
            /\ ~WindowExpired(id))
           => \A i \in ConvIds :
                 i = id => ReadWindow(i)' =
                             Take(<<ret'.message>> \o ReadWindow(id), 50)
        /\ (/\ ret'.op = "get_recent_messages"
            /\ ret'.conversation_id = id
            /\ calls' = calls + 1
            /\ ret'.value # None)
           => ret'.value[1] =
                 Take(ReadWindow(id), IF ret'.limit < 50 THEN ret'.limit ELSE 50)]_vars

\* C32: when update_conversation_status has run beside get_conversation_context
\* or add_interaction on the same conversation and all of them have finished
\* (no call is in flight; none was rolled back), the cache holds no snapshot
\* of the conversation with a status other than the one in the Durable Store.
C32_NoStaleSnapshotAfterRace ==
    (/\ \A w \in Workers : inflight[w] = Idle
     /\ failures = 0)
    => \A id \in DOMAIN conversations :
          get_conversation(cache, id, TRUE) # None
          => get_conversation(cache, id, TRUE)[1].status = conversations[id].status

\* C33: in the in-process fallback, an add_message on a conversation whose
\* window has passed its TTL starts a fresh window: what get_recent_messages
\* has to return afterwards is the message just added and nothing from the
\* expired window.
C33_FallbackStartsFreshWindow ==
    [][\A id \in ConvIds :
        (/\ ret'.op = "add_message"
         /\ ret'.conversation_id = id
         /\ calls' = calls + 1
         /\ WindowExpired(id))
        => \A i \in ConvIds : i = id => ReadWindow(i)' = <<ret'.message>>]_vars

\* C34: for the Durable Store as it stands and a given limit,
\* get_conversation_history returns the same messages in the same order
\* whether the cached window or the store serves it: a call served from the
\* cache (no call having been rolled back) returns what the store query of
\* the call would have returned.
C34_HistorySameFromCacheOrStore ==
    [][\A id \in ConvIds :
        (/\ ret'.op = "get_conversation_history"
         /\ ret'.conversation_id = id
         /\ calls' = calls + 1
         /\ ret'.outcome = "ok"
         /\ failures = 0
         /\ HistoryHit(cache, id, ret'.limit, TRUE))
        => ret'.value = HistoryRows(messages, id, ret'.limit)]_vars

\* C35: in every reachable state of the Durable Store a conversation whose
\* status is escalated has its escalated flag set.
C35_EscalatedStatusHasFlag ==
    \A id \in DOMAIN conversations :
        conversations[id].status = "escalated" => conversations[id].escalated

\* C36: handle_customer_message reports is_new_conversation = true exactly
\* when its call created a new Conversation row; a call without a
\* conversation id that continued an existing conversation reports false.
C36_IsNewIffRowCreated ==
    [][(/\ ret'.op = "handle_customer_message"
        /\ calls' = calls + 1
        /\ ret'.outcome = "ok")
       => (ret'.is_new_conversation
              <=> ret'.conversation_id \notin DOMAIN conversations)]_vars

\* the number of calls of client c accepted at a time t with lo <= t < hi
AcceptedWithin(rl, c, lo, hi) ==
    Cardinality({i \in 1..Len(rl.accepted[c]) :
                    lo <= rl.accepted[c][i] /\ rl.accepted[c][i] < hi})

\* C37: for every client id, check_rate_limit accepts at most max_requests
\* calls within any interval shorter than window seconds; a rejected call is
\* not recorded; and the outcome for a client follows from that client's own
\* accepted calls, the calls of other clients leaving it and its recorded
\* requests as they were.
C37_RateLimitPerClient ==
    [][\A client_id \in Customers :
        (/\ ret'.op = "check_rate_limit"
         /\ ret'.client_id = client_id
         /\ calls' = calls + 1)
        => /\ \A c \in Customers, t \in 0..RateMaxClock :
                 AcceptedWithin(rate_limiter', c, t, t + RateWindow) <= RateMaxRequests
           /\ ~ret'.value
                 => /\ rate_limiter'.accepted = rate_limiter.accepted
                    /\ client_id \in DOMAIN rate_limiter.requests
                    /\ Len(rate_limiter'.requests[client_id])
                          <= Len(rate_limiter.requests[client_id])
           /\ ret'.value
                 <=> AcceptedWithin(rate_limiter, client_id,
                                    rate_limiter.clock - RateWindow + 1,
                                    rate_limiter.clock + 1) < RateMaxRequests
           /\ \A c \in Customers \ {client_id} :
                 /\ (c \in DOMAIN rate_limiter'.requests)
                       = (c \in DOMAIN rate_limiter.requests)
                 /\ c \in DOMAIN rate_limiter.requests
                       => rate_limiter'.requests[c] = rate_limiter.requests[c]]_vars

\* a client at its limit was rejected in the second in which another client
\* was accepted, and was itself accepted before and after an earlier window
C37_Witness ==
    /\ ret.op = "check_rate_limit"
    /\ ~ret.value
    /\ Len(rate_limiter.accepted[ret.client_id]) > RateMaxRequests
    /\ \E c \in Customers \ {ret.client_id} :
          /\ rate_limiter.accepted[c] # << >>
          /\ rate_limiter.accepted[c][Len(rate_limiter.accepted[c])]
                = rate_limiter.clock

\* C38: cleanup_old_conversations changes to archived exactly the
\* conversations whose status is resolved and whose resolved_at is earlier
\* than now minus days_old, and reports their number; it deletes no
\* Conversation row and no Message row, and every other conversation, and
\* every conversation when the transaction is rolled back, stays as it was.
C38_CleanupArchivesExactlyOld ==
    [][ret'.op = "cleanup_old_conversations"
       => /\ DOMAIN conversations' = DOMAIN conversations
          /\ messages' = messages
          /\ kb_usage' = kb_usage
          /\ \A i \in DOMAIN conversations :
                IF /\ ret'.outcome = "success"
                   /\ conversations[i].status = "resolved"
                   /\ conversations[i].resolved_at # None
                   /\ conversations[i].resolved_at[1] < now - ret'.days_old * 24
                THEN /\ conversations'[i].status = "archived"
                     /\ [conversations'[i] EXCEPT !.status = "resolved",
                                                  !.updated_at = conversations[i].updated_at]
                           = conversations[i]
                ELSE conversations'[i] = conversations[i]
          /\ ret'.archived_count =
                Cardinality({i \in DOMAIN conversations :
                                conversations'[i] # conversations[i]})]_vars

\* the task archived the one old resolved conversation and left alone the
\* customer's open one
C38_Witness ==
    /\ ret.op = "cleanup_old_conversations"
    /\ ret.outcome = "success"
    /\ ret.days_old = 0
    /\ ret.archived_count = 1
    /\ \E i, j \in DOMAIN conversations :
          /\ conversations[i].status = "archived"
          /\ conversations[i].resolved_at # None
          /\ conversations[i].resolved_at[1] < now
          /\ conversations[j].status = "open"
          /\ conversations[j].customer_id = conversations[i].customer_id

\* C39: send_escalation_email terminates. A queued task ends as SUCCESS or
\* FAILURE; it is retried at most 3 times, each retry queued 60 seconds
\* after the failed execution and never run sooner; it fails only after
\* the third retry has failed too; once it has succeeded or failed it is
\* never run or queued again.
C39_EscalationEmailTerminates ==
    /\ [](/\ task.retries <= MaxRetries
          /\ Len(task.runs) <= MaxRetries + 1
          /\ \A k \in 2..Len(task.runs) :
                task.runs[k] - task.runs[k - 1] >= RetryCountdown)
    /\ [][/\ task.state \in {"SUCCESS", "FAILURE"} => task' = task
          /\ task'.retries # task.retries /\ task.state # "NONE"
                => /\ task'.state = "RETRY"
                   /\ task'.retries = task.retries + 1
                   /\ task'.eta = task.clock + RetryCountdown
          /\ task'.state = "FAILURE" /\ task.state # "FAILURE"
                => task.retries = MaxRetries]_vars
    /\ (task.state = "PENDING")
          ~> (task.state \in {"SUCCESS", "FAILURE"})

\* the conversation id has no row, every execution found no context, and
\* the task failed after its third retry, four executions in all
C39_Witness ==
    /\ task.state = "FAILURE"
    /\ task.retries = MaxRetries
    /\ Len(task.runs) = MaxRetries + 1
    /\ task.conversation_id \notin DOMAIN conversations
    /\ failures = 0

====
